---- MODULE Spec2Model ----
(***************************************************************************)
(* Model of the navigation / evidence-capture engine of gemini-mcp-server  *)
(* (src/src/mcp_handler.ts, src/src/supabase_handler.ts).                  *)
(*                                                                         *)
(* One request is one run of handleMcpRequest: analyzeNavigationNeeds,     *)
(* getPageContent (launch, initial load, popups, initial capture, plan     *)
(* loop, legacy options, final capture, harvest), the interpretation call  *)
(* and the catch / finally blocks.  Every await that can reject is a       *)
(* nondeterministic choice between its outcomes.                           *)
(***************************************************************************)
EXTENDS Naturals, Integers, Sequences, FiniteSets, TLC

VARIABLES
    pc,            \* position in handleMcpRequest / getPageContent
    plan,          \* navigationOptions.navigationSteps (<< >> when absent)
    legacy,        \* TRUE when legacy options (clickSelectors, ...) are present
    stepIdx,       \* index of the for-of loop over the plan (1-based)
    popupIdx,      \* which of the three popup dismissals is next
    pageUrl,       \* page.url(): the live URL of the page
    lastUrl,       \* getPageContent's lastUrl
    urlBefore,     \* history: page.url() when the current step began
    trackedBefore, \* history: lastUrl when the current step began
    browser,       \* getPageContent's browser: "null" | "open" | "closed"
    hBrowser,      \* handleMcpRequest's browser: "null" | "set"
    launches,      \* history: successful chromium.launch calls
    closeCalls,    \* history: browser.close invocations
    error,         \* the error in flight in a catch block
    result,        \* what handleMcpRequest returned or threw
    captures,      \* history: the capture attempts, in order
    executed,      \* history: indices of the steps started, in order
    inProgress,    \* history: indices of the steps begun and not yet finished
    stepFailed,    \* history: indices of the steps whose catch block ran
    sent,          \* history: the interpretation request was sent
    saveIn,        \* input of a stand-alone saveScreenshot call
    saveOut,       \* its result
    reply,         \* history: the reasoning service's reply to the plan request
    answer,        \* history: its reply to the interpretation request
    axTree,        \* getPageContent's axTree: "unset" | "tree" | "null"
    stepOps,       \* history: the page operations the current step awaited
    responses,     \* history: the HTTP responses sent for the request
    fnIn,          \* inputs of two stand-alone filename derivations
    fnOut,         \* their filenames
    reqs,          \* concurrent requests: each invocation's locals
    browsers,      \* concurrent requests: every browser launched so far
    request,       \* the HTTP request being served
    table,         \* the rows of the screenshots table
    dismissals,    \* history: the outcomes of the popup block in progress
    now,           \* the clock, in milliseconds (Date.now())
    bucket,        \* the blobs of the storage bucket 'screenshots'
    saves,         \* saveScreenshot invocations: each one's locals
    options,       \* the legacy groups of navigationOptions
    navigationScreenshots  \* getPageContent's navigationScreenshots

vars == << pc, plan, legacy, stepIdx, popupIdx, pageUrl, lastUrl, urlBefore,
           trackedBefore, browser, hBrowser, launches, closeCalls, error,
           result, captures, executed, inProgress, stepFailed, sent,
           saveIn, saveOut, reply, answer, axTree, stepOps, responses,
           fnIn, fnOut, reqs, browsers, request, table, dismissals,
           now, bucket, saves, options, navigationScreenshots >>

(***************************************************************************)
(* Bounds and value sets                                                   *)
(***************************************************************************)
MaxSteps == 2

\* The requested URL, the URL it may redirect to, and a further page.
RequestedUrl == "http://site"
Urls == {"http://site", "https://site/", "https://site/laptops"}
Blank == "about:blank"

ErrorKinds == {"TimeoutError", "Error"}

NoError == [kind |-> "none", src |-> "none", msg |-> << >>]
NoResult == [type |-> "none", msg |-> << >>, src |-> "none"]
NoAnswer == [kind |-> "none", blockReason |-> FALSE, text |-> ""]
NoSave == [attempts |-> << >>, ref |-> "none", threw |-> FALSE]
Idle == [url |-> "", tag |-> "none",
         env |-> [recordUpload |-> FALSE, recordInsert |-> FALSE,
                  upload |-> FALSE, localWrite |-> FALSE]]

\* The shapes of navigation step the plan is drawn from.
StepShapes ==
    { [type |-> "click",  text |-> TRUE,  selector |-> FALSE, duration |-> FALSE, value |-> FALSE],
      [type |-> "wait",   text |-> FALSE, selector |-> FALSE, duration |-> TRUE,  value |-> FALSE],
      [type |-> "scroll", text |-> FALSE, selector |-> TRUE,  duration |-> FALSE, value |-> FALSE],
      [type |-> "scroll", text |-> FALSE, selector |-> FALSE, duration |-> FALSE, value |-> FALSE],
      [type |-> "search", text |-> FALSE, selector |-> TRUE,  duration |-> FALSE, value |-> TRUE] }

Plans == UNION { [1..n -> StepShapes] : n \in 0..MaxSteps }

\* Every shape of click, wait, scroll and search step: each member the
\* switch looks at is set or not.
AllStepShapes ==
    [type : {"click"}, text : BOOLEAN, selector : BOOLEAN, duration : {FALSE}, value : {FALSE}]
    \cup [type : {"wait"}, text : {FALSE}, selector : {FALSE}, duration : BOOLEAN, value : {FALSE}]
    \cup [type : {"scroll"}, text : {FALSE}, selector : BOOLEAN, duration : {FALSE}, value : {FALSE}]
    \cup [type : {"search"}, text : {FALSE}, selector : BOOLEAN, duration : {FALSE}, value : BOOLEAN]

(***************************************************************************)
(* saveScreenshot (mcp_handler.ts 44-106) and saveScreenshotWithRecord     *)
(* (supabase_handler.ts 183-207) as functions of the backend's behaviour.  *)
(***************************************************************************)
SaveEnvs == [recordUpload : BOOLEAN, recordInsert : BOOLEAN,
             upload : BOOLEAN, localWrite : BOOLEAN]

\* saveScreenshotWithRecord resolves iff its upload and its insert both do.
SaveScreenshotWithRecord(env) == env.recordUpload /\ env.recordInsert

\* uploadScreenshot + getScreenshotUrl of the fallback path (lines 88-91).
DirectUpload(env) == env.upload

\* fs.writeFileSync of the local fallback (lines 96-104).
LocalWrite(env) == env.localWrite

\* The inner catch (lines 82-84) only warns: control falls through to line 88.
AfterPrimaryFailureM == "local"
AfterPrimaryFailure == "secondary"

\* The outer catch (lines 92-105) saves locally.
AfterSupabaseFailureM == "throw"
AfterSupabaseFailure == "local"

Attempt(tier, ok) == [tier |-> tier, ok |-> ok]

LocalTier(att, env) ==
    IF LocalWrite(env)
    THEN [attempts |-> Append(att, Attempt("local", TRUE)), ref |-> "local", threw |-> FALSE]
    ELSE [attempts |-> Append(att, Attempt("local", FALSE)), ref |-> "none", threw |-> TRUE]

SupabaseFailed(att, env) ==
    IF AfterSupabaseFailure = "local"
    THEN LocalTier(att, env)
    ELSE [attempts |-> att, ref |-> "none", threw |-> TRUE]

SecondaryTier(att, env) ==
    IF DirectUpload(env)
    THEN [attempts |-> Append(att, Attempt("secondary", TRUE)), ref |-> "secondary", threw |-> FALSE]
    ELSE SupabaseFailed(Append(att, Attempt("secondary", FALSE)), env)

SaveScreenshot(url, env) ==
    IF url # ""
    THEN IF SaveScreenshotWithRecord(env)
         THEN [attempts |-> << Attempt("primary", TRUE) >>, ref |-> "primary", threw |-> FALSE]
         ELSE IF AfterPrimaryFailure = "secondary"
              THEN SecondaryTier(<< Attempt("primary", FALSE) >>, env)
              ELSE SupabaseFailed(<< Attempt("primary", FALSE) >>, env)
    ELSE SecondaryTier(<< >>, env)

(***************************************************************************)
(* Navigation steps (mcp_handler.ts 196-342)                               *)
(***************************************************************************)
\* A step whose guard (step.text / step.selector / step.duration / ...) is
\* false awaits nothing; a click always awaits waitForLoadState.
StepTypes == {"click", "wait", "scroll", "search"}

\* A plan element that is null: the plan is whatever array the reply held
\* (line 565), its elements unchecked.
NullStep == [null |-> TRUE]

IsNull(step) == step = NullStep

\* Reading step.type of a null element is a TypeError: in the switch (line
\* 199) it is thrown inside the step's try, in the catch block's message
\* (line 340) outside of it.
StepCatchRethrows(step) == IsNull(step)

StepIsNoOp(step) ==
    \/ step.type \notin StepTypes
    \/ step.type = "wait" /\ ~step.duration
    \/ step.type = "scroll" /\ ~step.selector
    \/ step.type = "search" /\ ~(step.selector /\ step.value)

\* Can the step's switch branch reject into the step's catch (line 339)?
\* The search branch has its own try/catch around everything it awaits.
StepMayThrow(step) ==
    /\ ~StepIsNoOp(step)
    /\ step.type \in {"click", "wait", "scroll"}

\* Can the step move the page to another URL?  Clicks and a submitted search.
StepMayNavigate(step) ==
    \/ step.type = "click" /\ (step.text \/ step.selector)
    \/ step.type = "search" /\ step.selector /\ step.value

\* The page operations a run of the switch awaits, in order, when none of
\* them rejects out of the branch (lines 199-316).  A search is summed up
\* by what became of its two controls.
CompletedOpsM(step) == { << "waitForSelector", "click", "waitForLoadState" >> }

CompletedOps(step) ==
    CASE step.type = "click" /\ step.text ->
            { << "getByText.click", "waitForLoadState" >> }
      [] step.type = "click" /\ ~step.text /\ step.selector ->
            { << "waitForSelector", "click", "waitForLoadState" >> }
      [] step.type = "click" /\ ~step.text /\ ~step.selector ->
            { << "waitForLoadState" >> }
      [] step.type = "wait" ->
            IF step.duration THEN { << "waitForTimeout" >> } ELSE { << >> }
      [] step.type = "scroll" ->
            IF step.selector
            THEN { << "waitForSelector", "scrollIntoView", "waitForTimeout" >>,
                   << "waitForSelector", "scrollToBottom", "waitForTimeout" >>,
                   << "waitForSelector", "scrollIntoView", "scrollToBottom", "waitForTimeout" >> }
            ELSE { << >> }
      [] step.type = "search" ->
            IF step.selector /\ step.value
            THEN { << "searchButton:notFound" >>,
                   << "searchButton:clicked", "searchInput:notFound" >>,
                   << "searchButton:clicked", "searchInput:submitted" >> }
            ELSE { << >> }
      [] OTHER -> { << >> }

\* The same, up to and including the operation that rejects into the
\* step's catch.
FailedOps(step) ==
    CASE step.type = "click" /\ step.text ->
            { << "getByText.click" >>, << "getByText.click", "waitForLoadState" >> }
      [] step.type = "click" /\ ~step.text /\ step.selector ->
            { << "waitForSelector" >>, << "waitForSelector", "click" >>,
              << "waitForSelector", "click", "waitForLoadState" >> }
      [] step.type = "click" /\ ~step.text /\ ~step.selector ->
            { << "waitForLoadState" >> }
      [] step.type = "wait" -> { << "waitForTimeout" >> }
      [] step.type = "scroll" ->
            { << "waitForSelector", "scrollToBottom" >>,
              << "waitForSelector", "scrollIntoView", "scrollToBottom" >>,
              << "waitForSelector", "scrollIntoView", "waitForTimeout" >>,
              << "waitForSelector", "scrollToBottom", "waitForTimeout" >> }
      [] step.type = "search" -> { }
      [] OTHER -> { }

\* Where control goes after the step's catch block (lines 339-341): the
\* catch only warns, so the loop goes on with the next step.
AfterStepErrorM == "gpcCatch"
AfterStepError == "stepEnd"

\* The for-of loop takes the plan's elements one by one.
NextStepIdxM(i) == i + 2
NextStepIdxStay(i) == i
NextStepIdxRestart(i) == 1
NextStepIdx(i) == i + 1

\* Line 321: currentUrl !== lastUrl.
UrlChanged(currentUrl, last) == currentUrl # last

\* Line 192: after the initial capture the tracked URL is the requested URL.
InitialLastUrl(url, live) == url

(***************************************************************************)
(* One capture: page.screenshot, page.title (an argument of the call),     *)
(* then saveScreenshot.                                                    *)
(***************************************************************************)
CaptureResult(url, shotOk, titleOk, env) ==
    IF ~shotOk THEN "screenshotFailed"
    ELSE IF ~titleOk THEN "titleFailed"
    ELSE IF SaveScreenshot(url, env).threw THEN "saveFailed"
    ELSE "ok"

CaptureResults(url) ==
    { CaptureResult(url, s, t, e) : s \in BOOLEAN, t \in BOOLEAN, e \in SaveEnvs }

\* The second tag and the metadata keys each call site passes along
\* (lines 188-189, 328-333, 451-452).
SecondTag(tag) ==
    CASE tag = "initial_load" -> "page_entry"
      [] tag = "navigation_step" -> "interaction"
      [] tag = "final_state" -> "page_result"

MetadataKeys(tag) ==
    IF tag = "navigation_step" THEN {"stepType", "stepDetails", "pageTitle"}
    ELSE {"pageState", "pageTitle"}

\* url: the URL handed to saveScreenshot; page: the URL the page is on.
CaptureEntry(tag, step, url, res) ==
    [tag |-> tag, step |-> step, url |-> url, ok |-> (res = "ok"),
     tags |-> << tag, SecondTag(tag) >>, metadata |-> MetadataKeys(tag),
     page |-> pageUrl]

\* Line 336: lastUrl follows the page only once the capture is saved; a
\* capture that rejected has left the try block before the assignment.
LastUrlAfterCaptureM(res, currentUrl, last) == currentUrl

LastUrlAfterCapture(res, currentUrl, last) == IF res = "ok" THEN currentUrl ELSE last

\* navigationScreenshots is declared empty (line 127) and returned (line
\* 461); no capture pushes its path onto it.
ShotsAfterCaptureM(shots, entry) == IF entry.ok THEN Append(shots, entry.url) ELSE shots

ShotsAfterCapture(shots, entry) == shots

\* The kind of error a failed capture raises: saveScreenshot rethrows a
\* file-system error, the page operations may time out.
CaptureErrorKinds(res) ==
    IF res = "saveFailed" THEN {"Error"} ELSE ErrorKinds

(***************************************************************************)
(* Browser teardown                                                        *)
(***************************************************************************)
\* Line 465: if (browser) in getPageContent's catch.
CatchShouldCloseM(b) == FALSE
CatchShouldClose(b) == b # "null"

\* Line 664: if (browser) in handleMcpRequest's finally.
FinallyShouldCloseM(b) == FALSE
FinallyShouldClose(b) == b # "null"

(***************************************************************************)
(* Error messages.  A message is the sequence of the pieces it is put      *)
(* together from: fixed text, the url argument, the message of the error   *)
(* that is wrapped.                                                        *)
(***************************************************************************)
\* The markers server.ts looks for (lines 67-71).
Markers == {"Timeout navigating", "Failed to get page content", "blocked by Gemini"}

\* The url argument as it is put into a message: server.ts accepts every
\* string new URL() parses, a query that spells out a marker included.
PlainUrlText == "http://site"
MarkedUrlText == "http://site/?q=blocked by Gemini"
UrlTexts == {PlainUrlText, MarkedUrlText}

\* The message of an error thrown by a library (Playwright, the Gemini
\* client, the file system): it holds none of the markers.
RawMessage == << "raw" >>

\* The markers that occur in one piece of a message.
MarkersIn(piece) ==
    CASE piece = "Timeout navigating to or processing " -> {"Timeout navigating"}
      [] piece = "Failed to get page content for " -> {"Failed to get page content"}
      [] piece = "Request blocked by Gemini due to " -> {"blocked by Gemini"}
      [] piece = MarkedUrlText -> {"blocked by Gemini"}
      [] OTHER -> {}

\* Lines 468-471: the error getPageContent throws.
GpcMessage(kind, url) ==
    IF kind = "TimeoutError"
    THEN << "Timeout navigating to or processing ", url,
            ". The page might be too slow or unresponsive." >>
    ELSE << "Failed to get page content for ", url, ": " >> \o RawMessage

\* Line 651.
BlockedMessage == << "Request blocked by Gemini due to ", "blockReason", "." >>

\* Line 660.
McpMessage(msg) == << "MCP processing failed: " >> \o msg

(***************************************************************************)
(* analyzeNavigationNeeds (mcp_handler.ts 535-570).                        *)
(* The reply's text is a sequence of tokens: the json fence opener         *)
(* (three backticks and the word json), a bare fence (three backticks), a  *)
(* newline, a space, or a body (one JSON value, or text that is no JSON).  *)
(***************************************************************************)
MaxTextLen == 5

NoValue == [kind |-> "none", stepsArray |-> FALSE, steps |-> << >>, legacy |-> FALSE]

Tok(t) == [t |-> t, v |-> NoValue]
FenceJson == Tok("fenceJson")
Fence == Tok("fence")
NL == Tok("newline")
SP == Tok("space")
Body(v) == [t |-> "body", v |-> v]

\* A JSON object; stepsArray: its navigationSteps member is an array;
\* legacy: it carries one of the legacy options with the expected type.
JsonObject(isArray, steps, leg) ==
    [kind |-> "object", stepsArray |-> isArray, steps |-> steps, legacy |-> leg]
JsonOther(kind) ==
    [kind |-> kind, stepsArray |-> FALSE, steps |-> << >>, legacy |-> FALSE]

\* What is left of "\n```json" once "\n```" has been removed: the word json.
LeftoverWord == Body(JsonOther("notJson"))

IsSpace(tok) == tok.t \in {"newline", "space"}

\* String.prototype.trim (lines 544, 546).
RECURSIVE TrimLeft(_)
TrimLeft(text) ==
    IF text # << >> /\ IsSpace(Head(text)) THEN TrimLeft(Tail(text)) ELSE text

RECURSIVE TrimRight(_)
TrimRight(text) ==
    IF text # << >> /\ IsSpace(text[Len(text)])
    THEN TrimRight(SubSeq(text, 1, Len(text) - 1))
    ELSE text

Trim(text) == TrimRight(TrimLeft(text))

\* Line 545: replace(/```json\n?|\n?```/g, ''), scanning left to right.
RECURSIVE StripFencesM(_)
StripFencesM(text) ==
    IF text = << >> THEN << >>
    ELSE IF Head(text) = FenceJson THEN StripFencesM(Tail(text))
    ELSE << Head(text) >> \o StripFencesM(Tail(text))

RECURSIVE StripFences(_)
StripFences(text) ==
    IF text = << >> THEN << >>
    ELSE IF Head(text) = FenceJson
         THEN IF Len(text) >= 2 /\ text[2] = NL
              THEN StripFences(SubSeq(text, 3, Len(text)))
              ELSE StripFences(Tail(text))
    ELSE IF Head(text) = NL /\ Len(text) >= 2 /\ text[2] = Fence
         THEN StripFences(SubSeq(text, 3, Len(text)))
    ELSE IF Head(text) = NL /\ Len(text) >= 2 /\ text[2] = FenceJson
         THEN << LeftoverWord >> \o StripFences(SubSeq(text, 3, Len(text)))
    ELSE IF Head(text) = Fence THEN StripFences(Tail(text))
    ELSE << Head(text) >> \o StripFences(Tail(text))

\* Lines 544-546.
CleanResponse(text) == Trim(StripFences(Trim(text)))

\* JSON.parse (line 552): white space around one JSON value is accepted,
\* anything else is a SyntaxError.
ParseError == JsonOther("SyntaxError")

JsonParse(text) ==
    LET bodies == SelectSeq(text, LAMBDA tok : ~IsSpace(tok))
    IN IF Len(bodies) = 1 /\ bodies[1].t = "body" /\ bodies[1].v.kind # "notJson"
       THEN bodies[1].v
       ELSE ParseError

EmptyOptions == [navigationSteps |-> << >>, hasSteps |-> FALSE, legacy |-> FALSE]

\* Which return or throw of analyzeNavigationNeeds the reply leads to.
AnalysisPath(r) ==
    IF r.kind = "threw" THEN "callFailed"
    ELSE IF r.kind = "noResponse" THEN "noResponse"
    ELSE LET clean == CleanResponse(r.text)
             parsed == JsonParse(clean)
         IN IF clean = << >> THEN "emptyText"
            ELSE IF parsed = ParseError THEN "parseError"
            ELSE IF parsed.kind \in {"number", "string", "boolean"} THEN "nonObject"
            ELSE IF parsed.kind = "null" THEN "typeError"
            ELSE "options"

\* The paths that end in the catch block (lines 567-570).
AnalysisThrows(path) == path \in {"callFailed", "noResponse", "parseError", "typeError"}

\* The catch block returns {} : the error goes no further.
AfterAnalysisErrorM == "throw"
AfterAnalysisError == "emptyOptions"

\* Lines 559-566: each member is kept only when it has the expected type.
AnalyzeNavigationNeeds(r) ==
    IF AnalysisPath(r) = "options"
    THEN LET parsed == JsonParse(CleanResponse(r.text))
         IN [navigationSteps |-> IF parsed.stepsArray THEN parsed.steps ELSE << >>,
             hasSteps |-> parsed.stepsArray,
             legacy |-> parsed.legacy]
    ELSE EmptyOptions

NoReply == [kind |-> "none", text |-> << >>]
TextReply(text) == [kind |-> "text", text |-> text]

\* Legacy options come with plans of up to MaxLegacyPlan steps.
MaxLegacyPlan == 1

\* The replies a request is run with: a failed call, no response object,
\* an empty text, prose, JSON values of every type, and every plan.
MainReplies ==
    { [kind |-> "threw", text |-> << >>], [kind |-> "noResponse", text |-> << >>],
      TextReply(<< >>), TextReply(<< Body(JsonOther("notJson")) >>),
      TextReply(<< Body(JsonOther("number")) >>), TextReply(<< Body(JsonOther("null")) >>),
      TextReply(<< Body(JsonOther("array")) >>),
      TextReply(<< Body(JsonObject(FALSE, << >>, FALSE)) >>) }
    \cup { TextReply(<< Body(JsonObject(TRUE, p, FALSE)) >>) : p \in Plans }
    \cup { TextReply(<< Body(JsonObject(TRUE, p, TRUE)) >>) :
               p \in { q \in Plans : Len(q) <= MaxLegacyPlan } }

(***************************************************************************)
(* The HTTP requests (server.ts).  A member of a JSON body is absent, a    *)
(* number or a string.                                                     *)
(***************************************************************************)
NoRequest == [route |-> "none"]

Undefined == [type |-> "undefined", text |-> ""]
Number(text) == [type |-> "number", text |-> text]
String(text) == [type |-> "string", text |-> text]

\* JavaScript's !v for these values.
Falsy(v) ==
    \/ v.type = "undefined"
    \/ v.type = "string" /\ v.text = ""
    \/ v.type = "number" /\ v.text = "0"

\* new URL(text) returns for an absolute URL and throws otherwise.
ParsesAsUrl(text) == text \in Urls

BodyUrls == { Undefined, Number("7"), String(""), String("not a url"), String(RequestedUrl) }
BodyPrompts == { Undefined, Number("7"), String(""), String("prompt") }

PostRequests == [route : {"POST /process"}, url : BodyUrls, prompt : BodyPrompts]

\* server.ts 36-49: the three checks, in their order; "none" when the
\* request passes them.
RejectReasonM(req) == "none"

RejectReason(req) ==
    IF Falsy(req.url) \/ req.url.type # "string"
    THEN "Missing or invalid url in request body."
    ELSE IF Falsy(req.prompt) \/ req.prompt.type # "string"
    THEN "Missing or invalid prompt in request body."
    ELSE IF ~ParsesAsUrl(req.url.text)
    THEN "Invalid URL format provided."
    ELSE "none"

(***************************************************************************)
(* Initial state                                                           *)
(***************************************************************************)
MainIdle ==
    /\ plan = << >>
    /\ legacy = FALSE
    /\ stepIdx = 1
    /\ popupIdx = 1
    /\ pageUrl = Blank
    /\ lastUrl = ""
    /\ urlBefore = Blank
    /\ trackedBefore = ""
    /\ browser = "null"
    /\ hBrowser = "null"
    /\ launches = 0
    /\ closeCalls = 0
    /\ error = NoError
    /\ result = NoResult
    /\ captures = << >>
    /\ executed = << >>
    /\ inProgress = {}
    /\ stepFailed = {}
    /\ sent = FALSE
    /\ answer = NoAnswer
    /\ axTree = "unset"
    /\ stepOps = << >>
    /\ responses = << >>

\* The variables of the stand-alone specifications, at rest.
\* No legacy group is present.
NoOptions == [clickSelectors |-> 0, formInputs |-> 0, scrollToBottom |-> 0,
              waitForSelectors |-> 0, followLinks |-> 0]

StoreIdle ==
    /\ now = 0
    /\ bucket = {}
    /\ saves = << >>
    /\ options = NoOptions
    /\ navigationScreenshots = << >>

SideIdle ==
    /\ fnIn = << >>
    /\ fnOut = << >>
    /\ reqs = << >>
    /\ browsers = << >>
    /\ table = {}
    /\ dismissals = << >>
    /\ StoreIdle

Init ==
    /\ pc = "validate"
    /\ request \in PostRequests
    /\ MainIdle
    /\ reply = NoReply
    /\ saveIn = Idle
    /\ saveOut = NoSave
    /\ SideIdle

saveVars == << saveIn, saveOut >>
offVars == << fnIn, fnOut, reqs, browsers, request, table, now, bucket, saves, options >>
sideVars == << offVars, dismissals, navigationScreenshots >>
historyVars == << captures, executed, inProgress, stepFailed, urlBefore, trackedBefore >>
browserVars == << browser, hBrowser, launches, closeCalls >>
planVars == << plan, legacy >>

(***************************************************************************)
(* handleMcpRequest, lines 577-590: plan generation.                       *)
(* analyzeNavigationNeeds never throws; it yields a plan (possibly empty)  *)
(* and, possibly, legacy options.                                          *)
(***************************************************************************)
RequestPlan ==
    /\ pc = "requestPlan"
    /\ reply' \in MainReplies
    /\ pc' = "analyze"
    /\ UNCHANGED << planVars, stepIdx, popupIdx, pageUrl, lastUrl, browserVars,
                    error, result, historyVars, sent, saveVars, sideVars,
                    answer, axTree, stepOps, responses >>

Analyze ==
    /\ pc = "analyze"
    /\ IF AnalysisThrows(AnalysisPath(reply)) /\ AfterAnalysisError = "throw"
       THEN /\ error' = [kind |-> "Error", src |-> "analyze", msg |-> RawMessage]
            /\ pc' = "hCatch"
            /\ UNCHANGED planVars
       ELSE /\ plan' = AnalyzeNavigationNeeds(reply).navigationSteps
            /\ legacy' = AnalyzeNavigationNeeds(reply).legacy
            /\ pc' = "launch"
            /\ UNCHANGED error
    /\ UNCHANGED << stepIdx, popupIdx, pageUrl, lastUrl, browserVars,
                    result, historyVars, sent, saveVars, sideVars,
                    reply, answer, axTree, stepOps, responses >>

(***************************************************************************)
(* getPageContent, lines 130-147: launch, context/page, initial load.      *)
(***************************************************************************)
Throw(kind, src) ==
    /\ error' = [kind |-> kind, src |-> src, msg |-> RawMessage]
    /\ pc' = "gpcCatch"

Launch ==
    /\ pc = "launch"
    /\ \/ /\ browser' = "open"
          /\ launches' = launches + 1
          /\ pc' = "newContext"
          /\ UNCHANGED error
       \/ /\ \E k \in ErrorKinds : Throw(k, "launch")
          /\ UNCHANGED << browser, launches >>
    /\ UNCHANGED << planVars, stepIdx, popupIdx, pageUrl, lastUrl, hBrowser,
                    closeCalls, result, historyVars, sent, saveVars, sideVars,
                    reply, answer, axTree, stepOps, responses >>

NewContext ==
    /\ pc = "newContext"
    /\ \/ /\ pc' = "goto"
          /\ UNCHANGED error
       \/ \E k \in ErrorKinds : Throw(k, "newContext")
    /\ UNCHANGED << planVars, stepIdx, popupIdx, pageUrl, lastUrl, browserVars,
                    result, historyVars, sent, saveVars, sideVars,
                    reply, answer, axTree, stepOps, responses >>

\* page.goto follows redirects: the page may end on any URL.
Goto ==
    /\ pc = "goto"
    /\ \/ /\ \E u \in Urls : pageUrl' = u
          /\ pc' = "popup"
          /\ UNCHANGED error
       \/ /\ \E k \in ErrorKinds : Throw(k, "goto")
          /\ UNCHANGED pageUrl
    /\ UNCHANGED << planVars, stepIdx, popupIdx, lastUrl, browserVars,
                    result, historyVars, sent, saveVars, sideVars,
                    reply, answer, axTree, stepOps, responses >>

(***************************************************************************)
(* Lines 149-180: the three popup dismissals, each in its own try/catch.   *)
(* A dismissal that clicks may move the page.                              *)
(***************************************************************************)
NumPopups == 3

\* The controls looked for, in the order of the three try blocks.
PopupNames == << "cookieConsent", "localization", "seeAll" >>

\* One try block: the control does not show up within the timeout, or it
\* shows up and the click (for "see all": or the wait that follows it)
\* rejects, or the dismissal goes through.
PopupOutcomes == {"absent", "clickFailed", "dismissed"}

\* Where control goes from a try block whose body rejected: its catch
\* only logs.
AfterPopupErrorM == "gpcCatch"
AfterPopupError == "next"

\* Line 183 follows the popup block: the initial capture comes next.
AfterPopupsM == "stepLoop"
AfterPopups == "initialCapture"

Popup ==
    /\ pc = "popup"
    /\ \E o \in PopupOutcomes :
        /\ dismissals' = Append(dismissals, [name |-> PopupNames[popupIdx], outcome |-> o])
        /\ IF o = "absent"
           THEN UNCHANGED pageUrl
           ELSE \E u \in Urls : pageUrl' = u    \* a click may move the page
        /\ IF o = "dismissed" \/ AfterPopupError = "next"
           THEN /\ IF popupIdx < NumPopups
                   THEN popupIdx' = popupIdx + 1 /\ pc' = "popup"
                   ELSE popupIdx' = popupIdx /\ pc' = AfterPopups
                /\ UNCHANGED error
           ELSE /\ Throw("Error", "popup")
                /\ UNCHANGED popupIdx
    /\ UNCHANGED << planVars, stepIdx, lastUrl, browserVars,
                    result, historyVars, sent, saveVars, offVars, navigationScreenshots,
                    reply, answer, axTree, stepOps, responses >>

(***************************************************************************)
(* Lines 182-192: the initial capture, not inside a try of its own.        *)
(***************************************************************************)
InitialCapture ==
    /\ pc = "initialCapture"
    /\ \E res \in CaptureResults(RequestedUrl) :
          /\ captures' = Append(captures, CaptureEntry("initial_load", 0, RequestedUrl, res))
          /\ navigationScreenshots' =
                ShotsAfterCapture(navigationScreenshots,
                                  CaptureEntry("initial_load", 0, RequestedUrl, res))
          /\ IF res = "ok"
             THEN /\ lastUrl' = InitialLastUrl(RequestedUrl, pageUrl)
                  /\ pc' = "stepLoop"
                  /\ UNCHANGED error
             ELSE /\ \E k \in CaptureErrorKinds(res) : Throw(k, "initialCapture")
                  /\ UNCHANGED lastUrl
    /\ dismissals' = << >>
    /\ UNCHANGED << planVars, stepIdx, popupIdx, pageUrl, browserVars, result,
                    executed, inProgress, stepFailed, urlBefore, trackedBefore,
                    sent, saveVars, offVars,
                    reply, answer, axTree, stepOps, responses >>

(***************************************************************************)
(* Lines 195-343: the plan loop.                                           *)
(***************************************************************************)
\* for (const step of navigationSteps): take the next step, or leave the loop.
StepBegin ==
    /\ pc = "stepLoop"
    /\ stepIdx <= Len(plan)
    /\ executed' = Append(executed, stepIdx)
    /\ inProgress' = inProgress \cup {stepIdx}
    /\ urlBefore' = pageUrl
    /\ trackedBefore' = lastUrl
    /\ stepOps' = << >>
    /\ pc' = "stepAction"
    /\ UNCHANGED << planVars, stepIdx, popupIdx, pageUrl, lastUrl, browserVars,
                    error, result, captures, stepFailed, sent, saveVars, sideVars,
                    reply, answer, axTree, responses >>

LoopExit ==
    /\ pc = "stepLoop"
    /\ stepIdx > Len(plan)
    /\ pc' = "legacy"
    /\ UNCHANGED << planVars, stepIdx, popupIdx, pageUrl, lastUrl, browserVars,
                    error, result, historyVars, sent, saveVars, sideVars,
                    reply, answer, axTree, stepOps, responses >>

\* Lines 198-317: the switch.  The step may move the page and may reject,
\* in any combination its shape allows (a click can navigate and then time
\* out waiting for network idle).
StepAction ==
    /\ pc = "stepAction"
    /\ IF StepCatchRethrows(plan[stepIdx])
       THEN /\ stepOps' = << >>
            /\ stepFailed' = stepFailed \cup {stepIdx}
            /\ Throw("Error", "stepCatch")
            /\ UNCHANGED pageUrl
       ELSE /\ \/ UNCHANGED pageUrl
               \/ /\ StepMayNavigate(plan[stepIdx])
                  /\ \E u \in Urls \ {pageUrl} : pageUrl' = u
            /\ \/ /\ stepOps' \in CompletedOps(plan[stepIdx])
                  /\ pc' = "urlCheck"
                  /\ UNCHANGED << error, stepFailed >>
               \/ /\ StepMayThrow(plan[stepIdx])
                  /\ stepOps' \in FailedOps(plan[stepIdx])
                  /\ stepFailed' = stepFailed \cup {stepIdx}
                  /\ IF AfterStepError = "stepEnd"
                     THEN pc' = "stepEnd" /\ UNCHANGED error
                     ELSE \E k \in ErrorKinds : Throw(k, "step")
    /\ UNCHANGED << planVars, stepIdx, popupIdx, lastUrl, browserVars, result,
                    captures, executed, inProgress, urlBefore, trackedBefore,
                    sent, saveVars, sideVars,
                    reply, answer, axTree, responses >>

\* Lines 319-321: consulted only when the switch did not reject.
UrlCheck ==
    /\ pc = "urlCheck"
    /\ pc' = IF UrlChanged(pageUrl, lastUrl) THEN "stepCapture" ELSE "stepEnd"
    /\ UNCHANGED << planVars, stepIdx, popupIdx, pageUrl, lastUrl, browserVars,
                    error, result, historyVars, sent, saveVars, sideVars,
                    reply, answer, axTree, stepOps, responses >>

\* Lines 323-336: the mid-plan capture, inside the step's try.
StepCapture ==
    /\ pc = "stepCapture"
    /\ \E res \in CaptureResults(pageUrl) :
          /\ captures' = Append(captures, CaptureEntry("navigation_step", stepIdx, pageUrl, res))
          /\ navigationScreenshots' =
                ShotsAfterCapture(navigationScreenshots,
                                  CaptureEntry("navigation_step", stepIdx, pageUrl, res))
          /\ lastUrl' = LastUrlAfterCapture(res, pageUrl, lastUrl)
          /\ IF res = "ok"
             THEN /\ pc' = "stepEnd"
                  /\ UNCHANGED << error, stepFailed >>
             ELSE /\ stepFailed' = stepFailed \cup {stepIdx}
                  /\ IF AfterStepError = "stepEnd"
                     THEN pc' = "stepEnd" /\ UNCHANGED error
                     ELSE \E k \in CaptureErrorKinds(res) : Throw(k, "stepCapture")
    /\ UNCHANGED << planVars, stepIdx, popupIdx, pageUrl, browserVars, result,
                    executed, inProgress, urlBefore, trackedBefore, sent, saveVars,
                    offVars, dismissals,
                    reply, answer, axTree, stepOps, responses >>

\* The end of one loop iteration.
StepEnd ==
    /\ pc = "stepEnd"
    /\ inProgress' = inProgress \ {stepIdx}
    /\ stepIdx' = NextStepIdx(stepIdx)
    /\ stepOps' = << >>
    /\ pc' = "stepLoop"
    /\ UNCHANGED << planVars, popupIdx, pageUrl, lastUrl, browserVars, error,
                    result, captures, executed, stepFailed, urlBefore,
                    trackedBefore, sent, saveVars, sideVars,
                    reply, answer, axTree, responses >>

(***************************************************************************)
(* Lines 345-441: legacy options; every item is in its own try/catch, and  *)
(* clicks and followed links may move the page.  No capture is taken here. *)
(***************************************************************************)
LegacyOptions ==
    /\ pc = "legacy"
    /\ \/ UNCHANGED pageUrl
       \/ /\ legacy
          /\ \E u \in Urls \ {pageUrl} : pageUrl' = u
    /\ pc' = "finalCheck"
    /\ UNCHANGED << planVars, stepIdx, popupIdx, lastUrl, browserVars, error,
                    result, historyVars, sent, saveVars, sideVars,
                    reply, answer, axTree, stepOps, responses >>

(***************************************************************************)
(* Lines 443-455: the final capture, not inside a try of its own.          *)
(***************************************************************************)
FinalCheck ==
    /\ pc = "finalCheck"
    /\ pc' = IF UrlChanged(pageUrl, lastUrl) THEN "finalCapture" ELSE "axTree"
    /\ UNCHANGED << planVars, stepIdx, popupIdx, pageUrl, lastUrl, browserVars,
                    error, result, historyVars, sent, saveVars, sideVars,
                    reply, answer, axTree, stepOps, responses >>

FinalCapture ==
    /\ pc = "finalCapture"
    /\ \E res \in CaptureResults(pageUrl) :
          /\ captures' = Append(captures, CaptureEntry("final_state", 0, pageUrl, res))
          /\ navigationScreenshots' =
                ShotsAfterCapture(navigationScreenshots,
                                  CaptureEntry("final_state", 0, pageUrl, res))
          /\ IF res = "ok"
             THEN pc' = "axTree" /\ UNCHANGED error
             ELSE \E k \in CaptureErrorKinds(res) : Throw(k, "finalCapture")
    /\ UNCHANGED << planVars, stepIdx, popupIdx, pageUrl, lastUrl, browserVars,
                    result, executed, inProgress, stepFailed, urlBefore,
                    trackedBefore, sent, saveVars, offVars, dismissals,
                    reply, answer, axTree, stepOps, responses >>

(***************************************************************************)
(* Lines 457-461: harvest, then return to handleMcpRequest (line 590).     *)
(***************************************************************************)
AxTree ==
    /\ pc = "axTree"
    /\ \/ /\ axTree' \in {"tree", "null"}
          /\ pc' = "harvestShot"
          /\ UNCHANGED error
       \/ /\ \E k \in ErrorKinds : Throw(k, "axTree")
          /\ UNCHANGED axTree
    /\ UNCHANGED << planVars, stepIdx, popupIdx, pageUrl, lastUrl, browserVars,
                    result, historyVars, sent, saveVars, sideVars,
                    reply, answer, stepOps, responses >>

HarvestShot ==
    /\ pc = "harvestShot"
    /\ \/ /\ pc' = "interpret"
          /\ hBrowser' = "set"
          /\ UNCHANGED error
       \/ /\ \E k \in ErrorKinds : Throw(k, "harvestShot")
          /\ UNCHANGED hBrowser
    /\ UNCHANGED << planVars, stepIdx, popupIdx, pageUrl, lastUrl, browser,
                    launches, closeCalls, result, historyVars, sent, saveVars, sideVars,
                    reply, answer, axTree, stepOps, responses >>

(***************************************************************************)
(* Lines 463-472: getPageContent's catch.  browser.close is awaited with   *)
(* no try of its own, so a rejected close leaves the catch block in place  *)
(* of the error the block was about to throw.                              *)
(***************************************************************************)
GpcCatch ==
    /\ pc = "gpcCatch"
    /\ \E u \in UrlTexts :
       IF CatchShouldClose(browser)
       THEN /\ closeCalls' = closeCalls + 1
            /\ \/ /\ browser' = "closed"
                  /\ error' = [kind |-> "Error", src |-> error.src,
                               msg |-> GpcMessage(error.kind, u)]
               \/ /\ UNCHANGED browser
                  /\ error' = [kind |-> "Error", src |-> "close", msg |-> RawMessage]
       ELSE /\ UNCHANGED << closeCalls, browser >>
            /\ error' = [kind |-> "Error", src |-> error.src,
                         msg |-> GpcMessage(error.kind, u)]
    /\ pc' = "hCatch"
    /\ UNCHANGED << planVars, stepIdx, popupIdx, pageUrl, lastUrl, hBrowser,
                    launches, result, historyVars, sent, saveVars, sideVars,
                    reply, answer, axTree, stepOps, responses >>

(***************************************************************************)
(* handleMcpRequest, lines 607-655: the interpretation call.               *)
(***************************************************************************)
InterpretOutcomes == {"threw", "noResponse", "blocked", "emptyText", "text"}

\* What generateContent gives back: a rejection, a result without response,
\* or a response with or without a block reason and with or without text.
Answers ==
    { [kind |-> "threw", blockReason |-> FALSE, text |-> ""],
      [kind |-> "noResponse", blockReason |-> FALSE, text |-> ""] }
    \cup [kind : {"response"}, blockReason : BOOLEAN, text : {"", "responseText"}]

\* Lines 638-655, in the order of the checks.
InterpretOutcomeM(a) ==
    IF a.kind = "threw" THEN "threw"
    ELSE IF a.kind = "noResponse" THEN "noResponse"
    ELSE IF a.text # "" THEN "text"
    ELSE IF a.blockReason THEN "blocked"
    ELSE "emptyText"

InterpretOutcome(a) ==
    IF a.kind = "threw" THEN "threw"
    ELSE IF a.kind = "noResponse" THEN "noResponse"
    ELSE IF a.blockReason THEN "blocked"
    ELSE IF a.text = "" THEN "emptyText"
    ELSE "text"

\* Lines 612-628: the tree, or the note that it was not available.
PromptParts(tree) ==
    << "prompt", "screenshot",
       IF tree = "tree" THEN "axTree" ELSE "treeNotAvailable" >>

Interpret ==
    /\ pc = "interpret"
    /\ sent' = TRUE
    /\ \E a \in Answers :
        /\ answer' = a
        /\ LET o == InterpretOutcome(a) IN
          CASE o = "threw" ->
                  /\ error' = [kind |-> "Error", src |-> "generateContent", msg |-> RawMessage]
                  /\ pc' = "hCatch"
                  /\ UNCHANGED result
            [] o = "noResponse" ->
                  /\ error' = [kind |-> "Error", src |-> "noResponse",
                               msg |-> << "Gemini API returned an empty response." >>]
                  /\ pc' = "hCatch"
                  /\ UNCHANGED result
            [] o = "blocked" ->
                  /\ error' = [kind |-> "Error", src |-> "blocked",
                               msg |-> BlockedMessage]
                  /\ pc' = "hCatch"
                  /\ UNCHANGED result
            [] o = "emptyText" ->
                  /\ result' = [type |-> "text", msg |-> << "(Gemini returned an empty response)" >>,
                                src |-> "none"]
                  /\ pc' = "hFinally"
                  /\ UNCHANGED error
            [] o = "text" ->
                  /\ result' = [type |-> "text", msg |-> << a.text >>, src |-> "none"]
                  /\ pc' = "hFinally"
                  /\ UNCHANGED error
    /\ UNCHANGED << planVars, stepIdx, popupIdx, pageUrl, lastUrl, browserVars,
                    historyVars, saveVars, sideVars,
                    reply, axTree, stepOps, responses >>

\* Lines 657-661: every error is rethrown as "MCP processing failed: <msg>".
HCatch ==
    /\ pc = "hCatch"
    /\ result' = [type |-> "error", msg |-> McpMessage(error.msg), src |-> error.src]
    /\ pc' = "hFinally"
    /\ UNCHANGED << planVars, stepIdx, popupIdx, pageUrl, lastUrl, browserVars,
                    error, historyVars, sent, saveVars, sideVars,
                    reply, answer, axTree, stepOps, responses >>

\* Lines 662-672: the finally block closes the browser getPageContent
\* returned; a rejected close is caught and logged.
HFinally ==
    /\ pc = "hFinally"
    /\ IF FinallyShouldClose(hBrowser)
       THEN /\ closeCalls' = closeCalls + 1
            /\ \/ browser' = "closed"
               \/ UNCHANGED browser
       ELSE UNCHANGED << closeCalls, browser >>
    /\ pc' = "done"
    /\ UNCHANGED << planVars, stepIdx, popupIdx, pageUrl, lastUrl, hBrowser,
                    launches, error, result, historyVars, sent, saveVars, sideVars,
                    reply, answer, axTree, stepOps, responses >>

(***************************************************************************)
(* server.ts 53-74: POST /process answers with the text, or with the error *)
(* message and a status chosen from what the message contains.             *)
(***************************************************************************)
\* message.includes(marker).
Includes(msg, marker) == \E i \in DOMAIN msg : marker \in MarkersIn(msg[i])

StatusOk == 200
StatusClientError == 400
StatusServerError == 500

StatusCodeM(r) == StatusServerError

StatusCode(r) ==
    IF r.type = "text" THEN StatusOk
    ELSE IF Includes(r.msg, "Timeout navigating") \/ Includes(r.msg, "Failed to get page content")
         THEN StatusClientError
    ELSE IF Includes(r.msg, "blocked by Gemini") THEN StatusClientError
    ELSE StatusServerError

\* server.ts 33-50: a request that fails a check is answered at once.
Validate ==
    /\ pc = "validate"
    /\ IF RejectReason(request) # "none"
       THEN /\ responses' = Append(responses,
                                   [status |-> StatusClientError, body |-> "error",
                                    text |-> << RejectReason(request) >>])
            /\ pc' = "responded"
       ELSE /\ pc' = "requestPlan"
            /\ UNCHANGED responses
    /\ UNCHANGED << planVars, stepIdx, popupIdx, pageUrl, lastUrl, browserVars,
                    error, result, historyVars, sent, saveVars, sideVars,
                    reply, answer, axTree, stepOps >>

Respond ==
    /\ pc = "done"
    /\ responses' = Append(responses,
                           [status |-> StatusCode(result),
                            body |-> IF result.type = "text" THEN "response" ELSE "error",
                            text |-> result.msg])
    /\ pc' = "responded"
    /\ UNCHANGED << planVars, stepIdx, popupIdx, pageUrl, lastUrl, browserVars,
                    error, result, historyVars, sent, saveVars, sideVars,
                    reply, answer, axTree, stepOps >>

Next ==
    \/ Validate
    \/ RequestPlan
    \/ Analyze
    \/ Launch
    \/ NewContext
    \/ Goto
    \/ Popup
    \/ InitialCapture
    \/ StepBegin
    \/ LoopExit
    \/ StepAction
    \/ UrlCheck
    \/ StepCapture
    \/ StepEnd
    \/ LegacyOptions
    \/ FinalCheck
    \/ FinalCapture
    \/ AxTree
    \/ HarvestShot
    \/ GpcCatch
    \/ Interpret
    \/ HCatch
    \/ HFinally
    \/ Respond

Spec == Init /\ [][Next]_vars

(***************************************************************************)
(* saveScreenshot on its own: one call, for each URL a capture can pass,   *)
(* each tag set and each behaviour of the storage backend and the disk.    *)
(***************************************************************************)
CaptureTags == {"initial_load", "navigation_step", "final_state"}

InitSave ==
    /\ pc = "save"
    /\ MainIdle
    /\ reply = NoReply
    /\ saveIn \in [url : Urls, tag : CaptureTags, env : SaveEnvs]
    /\ saveOut = NoSave
    /\ SideIdle
    /\ request = NoRequest

CallSaveScreenshot ==
    /\ pc = "save"
    /\ saveOut' = SaveScreenshot(saveIn.url, saveIn.env)
    /\ pc' = "saved"
    /\ UNCHANGED << planVars, stepIdx, popupIdx, pageUrl, lastUrl, browserVars,
                    error, result, historyVars, sent, saveIn, sideVars,
                    reply, answer, axTree, stepOps, responses >>

NextSave == CallSaveScreenshot

SpecSave == InitSave /\ [][NextSave]_vars

(***************************************************************************)
(* Properties                                                              *)
(***************************************************************************)
StepPcs == {"stepLoop", "stepAction", "urlCheck", "stepCapture", "stepEnd"}
PostPlanPcs == {"legacy", "finalCheck", "finalCapture", "axTree", "harvestShot", "interpret"}
CapturePcs == {"initialCapture", "stepCapture", "finalCapture"}

StepCaptured(i) ==
    \E j \in 1..Len(captures) :
        captures[j].tag = "navigation_step" /\ captures[j].step = i

\* C1 (as claimed): browser.close is invoked exactly once per request on
\* every exit path, a failed launch included.
C1_CloseExactlyOnce == pc = "done" => closeCalls = 1

\* C1 (amended): browser.close is invoked exactly once per request in which
\* the launch succeeded, on every exit path, and never when the launch
\* failed; at no time has it been invoked more often than a browser was
\* launched.
C1_CloseOncePerLaunch ==
    /\ launches <= 1
    /\ closeCalls <= launches
    /\ (pc = "done" => closeCalls = launches)

C1_Witness ==
    /\ pc = "done"
    /\ launches = 1
    /\ closeCalls = 1
    /\ result.type = "error"
    /\ result.src = "goto"

\* C2: a step that fails (its action or its capture rejects) never aborts
\* the run: its error never reaches getPageContent's catch, every later step
\* is still started, and the final-capture check and the harvest are reached
\* with every step of the plan executed.
C2_FailedStepNeverAborts ==
    /\ error.src \notin {"step", "stepCapture"}
    /\ result.src \notin {"step", "stepCapture"}
    /\ (pc \in StepPcs \cup {"legacy", "finalCheck"} => error = NoError)
    /\ (pc \in PostPlanPcs => Len(executed) = Len(plan))

C2_Witness ==
    /\ pc = "harvestShot"
    /\ Len(plan) = 2
    /\ stepFailed = {1}
    /\ executed = << 1, 2 >>

\* C3: the steps run in plan order, each exactly once, one at a time: the
\* steps started so far are 1, 2, ..., k, at most one step is in progress,
\* none is in progress between two steps, a step's capture is taken while
\* that step is the one in progress, and the loop is left only when every
\* step has run.
C3_StepsSequential ==
    /\ Cardinality(inProgress) <= 1
    /\ Len(executed) <= Len(plan)
    /\ \A i \in 1..Len(executed) : executed[i] = i
    /\ (pc = "stepLoop" => inProgress = {} /\ stepIdx = Len(executed) + 1)
    /\ (pc \in StepPcs \ {"stepLoop"} =>
            inProgress = {stepIdx} /\ stepIdx = Len(executed))
    /\ (pc \in PostPlanPcs => inProgress = {} /\ Len(executed) = Len(plan))
    /\ \A j \in 1..Len(captures) :
          captures[j].tag = "navigation_step" =>
              /\ captures[j].step \in 1..Len(executed)
              /\ (captures[j].step \in inProgress => pc = "stepEnd")

C3_Witness ==
    /\ pc = "stepAction"
    /\ stepIdx = 2
    /\ executed = << 1, 2 >>
    /\ StepCaptured(1)

\* C4 (as claimed): when a step is over, whether its action succeeded or
\* failed, a live URL that differs from the URL tracked when the step began
\* has been captured for that step (tag navigation_step, that step, that
\* URL) and has become the tracked URL.
C4_ChangedUrlCaptured ==
    (pc = "stepEnd" /\ UrlChanged(pageUrl, trackedBefore)) =>
        /\ lastUrl = pageUrl
        /\ \E j \in 1..Len(captures) :
              /\ captures[j].tag = "navigation_step"
              /\ captures[j].step = stepIdx
              /\ captures[j].url = pageUrl

\* C5 (as claimed): a step across which the live URL did not change takes
\* no navigation_step capture.
C5_UnchangedUrlNoCapture ==
    (pc = "stepEnd" /\ pageUrl = urlBefore) => ~StepCaptured(stepIdx)

\* C6: when the primary tier fails and the secondary tier succeeds,
\* saveScreenshot returns the secondary tier's reference and does not throw.
C6_SecondaryAfterPrimaryFails ==
    (/\ pc = "saved"
     /\ ~SaveScreenshotWithRecord(saveIn.env)
     /\ DirectUpload(saveIn.env)) =>
        /\ saveOut.ref = "secondary"
        /\ ~saveOut.threw

C6_Witness ==
    /\ pc = "saved"
    /\ saveIn.env.recordUpload
    /\ ~saveIn.env.recordInsert
    /\ saveIn.env.upload
    /\ saveOut.ref = "secondary"

TierOrder == << "primary", "secondary", "local" >>

TierSucceeds(tier, env) ==
    CASE tier = "primary" -> env.recordUpload /\ env.recordInsert
      [] tier = "secondary" -> env.upload
      [] tier = "local" -> env.localWrite

\* C7: the tiers are tried in the order primary, secondary, local; each
\* attempt but the last one failed; the reference is that of the first tier
\* that succeeds; saveScreenshot throws only when all three tiers failed.
C7_TiersInOrder ==
    pc = "saved" =>
        LET a == saveOut.attempts
            n == Len(a)
        IN /\ n \in 1..3
           /\ \A i \in 1..n : a[i].tier = TierOrder[i]
           /\ \A i \in 1..n : a[i].ok = TierSucceeds(a[i].tier, saveIn.env)
           /\ \A i \in 1..(n - 1) : ~a[i].ok
           /\ saveOut.threw <=> (n = 3 /\ ~a[3].ok)
           /\ ~saveOut.threw => (a[n].ok /\ saveOut.ref = a[n].tier)

C7_Witness ==
    /\ pc = "saved"
    /\ Len(saveOut.attempts) = 3
    /\ saveOut.ref = "local"

\* C8 (as claimed): a capture that fails never aborts the request, whichever
\* capture it is: no request ends with the error of a capture.
C8_CaptureFailureScoped ==
    pc = "done" => result.src \notin CapturePcs

C10_CloseErrorNeverRaised == pc = "done" => result.src # "close"

(***************************************************************************)
(* Failures before the first capture, and the HTTP answer                  *)
(***************************************************************************)
EarlySources == {"launch", "newContext", "goto"}

\* C11 (as claimed): when launch, context/page creation or the initial
\* navigation fails, the request is aborted with no step executed and no
\* capture taken, and the error getPageContent raises carries the "Timeout
\* navigating" message for a timeout and the "Failed to get page content"
\* message for every other failure.
C11_EarlyFailureAborts ==
    [][ (pc = "gpcCatch" /\ error.src \in EarlySources) =>
           /\ pc' = "hCatch"
           /\ executed' = << >>
           /\ captures' = << >>
           /\ Includes(error'.msg, "Timeout navigating") <=> (error.kind = "TimeoutError")
           /\ Includes(error'.msg, "Failed to get page content") <=> (error.kind # "TimeoutError")
      ]_vars

\* The failures the claim puts in the client error class: the navigation
\* (timed out or failed) and blocked content.
ClientClassSources == {"goto", "blocked"}

\* C12 (as claimed): a failed request is answered with 400 exactly when the
\* failure is a navigation timeout, a navigation error or blocked content,
\* and with 500 for every other failure.
C12_StatusByFailureClass ==
    (pc = "responded" /\ result.type = "error") =>
        /\ responses[1].status = StatusClientError <=> result.src \in ClientClassSources
        /\ responses[1].status = StatusServerError <=> result.src \notin ClientClassSources

\* The failures that are survived: a step, a popup dismissal, the plan.
SurvivedSources == {"step", "popup", "analyze"}

\* C13: a request is answered once: nothing is sent before
\* handleMcpRequest has terminated (or the request has failed a check),
\* then one response is sent, which is 200 with the interpretation text
\* or 400/500 with the error message; a
\* request whose interpretation succeeded is answered with 200 however
\* many of its steps failed, and no error response reports the failure of a
\* step, of a popup dismissal or of the plan generation.
C13_OneResponse ==
    /\ pc # "responded" => responses = << >>
    /\ pc = "responded" =>
          /\ Len(responses) = 1
          /\ \/ /\ responses[1].status = StatusOk
                /\ responses[1].body = "response"
                /\ responses[1].text = result.msg
                /\ result.type = "text"
             \/ /\ responses[1].status \in {StatusClientError, StatusServerError}
                /\ responses[1].body = "error"
                /\ result.type = "error"
                /\ result.src \notin SurvivedSources
             \/ /\ responses[1].status = StatusClientError
                /\ responses[1].body = "error"
                /\ RejectReason(request) # "none"
                /\ result = NoResult
          /\ (answer # NoAnswer /\ InterpretOutcome(answer) \in {"emptyText", "text"}) =>
                responses[1].status = StatusOk

C13_Witness ==
    /\ pc = "responded"
    /\ responses[1].status = StatusOk
    /\ stepFailed # {}
    /\ Len(plan) = MaxSteps

(***************************************************************************)
(* Plan generation                                                         *)
(***************************************************************************)
\* C14: whatever the plan request comes to (the call fails, no response
\* object, empty text, text that is no JSON, a JSON value that is no
\* object), the request is not aborted by it: the plan is empty, no error
\* of the analysis is raised, and handleMcpRequest goes on to launch the
\* browser.
C14_PlanFailureNeverAborts ==
    (reply # NoReply /\ pc # "analyze" /\ AnalysisPath(reply) # "options") =>
        /\ plan = << >>
        /\ legacy = FALSE
        /\ error.src # "analyze"
        /\ result.src # "analyze"
        /\ pc # "launch" => (launches = 1 \/ error.src = "launch")

C14_Witness ==
    /\ pc = "interpret"
    /\ AnalysisPath(reply) = "parseError"
    /\ launches = 1
    /\ plan = << >>

\* The texts analyzeNavigationNeeds is run on by itself: every sequence, up
\* to MaxTextLen long, of fences, white space and two plans.
OneStep == << [type |-> "click", text |-> TRUE, selector |-> FALSE,
               duration |-> FALSE, value |-> FALSE] >>
PlanBodies == { Body(JsonObject(TRUE, << >>, FALSE)), Body(JsonObject(TRUE, OneStep, FALSE)) }
PlanTokens == {FenceJson, Fence, NL, SP} \cup PlanBodies
PlanTexts == UNION { [1..n -> PlanTokens] : n \in 0..MaxTextLen }

InitPlan ==
    /\ pc = "analyze"
    /\ MainIdle
    /\ reply \in { TextReply(t) : t \in PlanTexts }
    /\ saveIn = Idle
    /\ saveOut = NoSave
    /\ SideIdle
    /\ request = NoRequest

NextPlan == Analyze

SpecPlan == InitPlan /\ [][NextPlan]_vars

\* A body inside a json code fence, with or without the line breaks.
Fenced(body) ==
    { << FenceJson, NL, body, NL, Fence >>, << FenceJson, NL, body, Fence >>,
      << FenceJson, body, NL, Fence >>, << FenceJson, body, Fence >> }

\* C15: a plan wrapped in a json code fence yields the plan of the
\* unwrapped JSON; a fenced {"navigationSteps":[]} is parsed (as an empty
\* step list), it is no parse error.
C15_FenceStripped ==
    pc = "launch" =>
        \A b \in PlanBodies :
            reply.text \in Fenced(b) =>
                /\ AnalysisPath(reply) = "options"
                /\ AnalyzeNavigationNeeds(reply).hasSteps
                /\ plan = b.v.steps
                /\ plan = AnalyzeNavigationNeeds(TextReply(<< b >>)).navigationSteps

C15_Witness ==
    /\ pc = "launch"
    /\ reply.text = << FenceJson, NL, Body(JsonObject(TRUE, OneStep, FALSE)), NL, Fence >>
    /\ plan = OneStep

(***************************************************************************)
(* The interpretation request                                              *)
(***************************************************************************)
Blocked(a) == a.kind = "response" /\ a.blockReason

\* C16 (as claimed): blocked content raises an error whose message holds
\* "blocked by Gemini", no other error's message holds it, the error is
\* raised whatever text the response has, and it is answered with 400.
C16_BlockedIsDistinct ==
    /\ (pc \in {"done", "responded"} /\ Blocked(answer)) =>
          /\ result.type = "error"
          /\ Includes(result.msg, "blocked by Gemini")
    /\ (pc \in {"done", "responded"} /\ result.type = "error" /\ ~Blocked(answer)) =>
          ~Includes(result.msg, "blocked by Gemini")
    /\ (pc = "responded" /\ Blocked(answer)) => responses[1].status = StatusClientError

\* C17 (as claimed): a snapshot that throws or yields nothing never aborts
\* the request: no request ends with the error of the snapshot, and with
\* no tree the interpretation request carries the "not available" part.
C17_AxTreeBestEffort ==
    /\ pc \in {"done", "responded"} => result.src # "axTree"
    /\ (sent /\ axTree = "null") => PromptParts(axTree)[3] = "treeNotAvailable"

\* C20 (as claimed): a scroll step without selector scrolls the window to
\* the bottom of the page and then waits.
C20_ScrollNoSelectorScrolls ==
    (pc = "urlCheck" /\ plan[stepIdx].type = "scroll" /\ ~plan[stepIdx].selector) =>
        stepOps = << "scrollToBottom", "waitForTimeout" >>

(***************************************************************************)
(* The screenshot filename (saveScreenshot, lines 51-66).                  *)
(* A timestamp, a host name and a filename are sequences of characters, a  *)
(* description is a sequence of bytes.                                     *)
(***************************************************************************)
\* toISOString gives a string of fixed layout; only the milliseconds vary here.
IsoString(ms) ==
    << "2", "0", "2", "6", "-", "0", "1", "-", "0", "1", "T",
       "0", "0", ":", "0", "0", ":", "0", "0", ".", "0", "0", ms, "Z" >>

Timestamps == { IsoString(ms) : ms \in {"0", "1"} }

\* replace(/[:.]/g, '-')
RECURSIVE SanitizeTimestamp(_)
SanitizeTimestamp(ts) ==
    IF ts = << >> THEN << >>
    ELSE << IF Head(ts) \in {":", "."} THEN "-" ELSE Head(ts) >>
         \o SanitizeTimestamp(Tail(ts))

\* The url argument: absent, a string new URL() rejects, or a URL with
\* its host name and its path.
NoUrl == [kind |-> "absent", host |-> << >>, path |-> ""]
BadUrl == [kind |-> "invalid", host |-> << >>, path |-> ""]
Hosts == { << "a", ".", "b" >>, << "a", "-", "b" >>, << "a", "b" >> }
Paths == {"/", "/laptops"}
FileUrls == {NoUrl, BadUrl} \cup [kind : {"url"}, host : Hosts, path : Paths]

IsAlnum(c) == c \in {"a", "b"}

\* hostname.replace(/[^a-zA-Z0-9]/g, '-')
RECURSIVE HostSlug(_)
HostSlug(host) ==
    IF host = << >> THEN << >>
    ELSE << IF IsAlnum(Head(host)) THEN Head(host) ELSE "-" >> \o HostSlug(Tail(host))

\* Lines 55-64: '' without url or when new URL throws, else '_' + slug.
Domain(url) ==
    IF url.kind = "url" THEN << "_" >> \o HostSlug(url.host) ELSE << >>

\* The base64 alphabet.
B64Alphabet ==
    << "A", "B", "C", "D", "E", "F", "G", "H", "I", "J", "K", "L", "M", "N", "O", "P",
       "Q", "R", "S", "T", "U", "V", "W", "X", "Y", "Z", "a", "b", "c", "d", "e", "f",
       "g", "h", "i", "j", "k", "l", "m", "n", "o", "p", "q", "r", "s", "t", "u", "v",
       "w", "x", "y", "z", "0", "1", "2", "3", "4", "5", "6", "7", "8", "9", "+", "/" >>

B64Char(n) == B64Alphabet[n + 1]

\* Buffer.from(prompt).toString('base64'): three bytes give four characters,
\* a rest of one or two bytes is padded with "=".
RECURSIVE Base64(_)
Base64(bytes) ==
    IF Len(bytes) = 0 THEN << >>
    ELSE IF Len(bytes) = 1
         THEN << B64Char(bytes[1] \div 4), B64Char((bytes[1] % 4) * 16), "=", "=" >>
    ELSE IF Len(bytes) = 2
         THEN << B64Char(bytes[1] \div 4),
                 B64Char((bytes[1] % 4) * 16 + bytes[2] \div 16),
                 B64Char((bytes[2] % 16) * 4), "=" >>
    ELSE << B64Char(bytes[1] \div 4),
            B64Char((bytes[1] % 4) * 16 + bytes[2] \div 16),
            B64Char((bytes[2] % 16) * 4 + bytes[3] \div 64),
            B64Char(bytes[3] % 64) >>
         \o Base64(SubSeq(bytes, 4, Len(bytes)))

\* substring(0, 20)
HashLen == 20
\* The bytes of the description that reach the filename: 20 base64
\* characters stand for 15 bytes.
HashBytes == (HashLen * 6) \div 8
Substring(str, n) == SubSeq(str, 1, IF Len(str) < n THEN Len(str) ELSE n)

PromptHashM(prompt) == Base64(prompt)

PromptHash(prompt) == Substring(Base64(prompt), HashLen)

\* Line 66.
Filename(ts, url, prompt) ==
    << "screenshot_" >> \o SanitizeTimestamp(ts) \o Domain(url) \o << "_" >>
        \o PromptHash(prompt) \o << ".png" >>

\* The descriptions: one or two bytes, and descriptions that agree on
\* their first PrefixLen bytes and go on for up to MaxTail bytes more.
MaxTail == 2
PrefixLen == HashBytes - 1
ByteA == 97
ByteB == 98
PromptPrefix == [i \in 1..PrefixLen |-> ByteA]
Tails == UNION { [1..n -> {ByteA, ByteB}] : n \in 0..MaxTail }
Prompts == { << ByteA >>, << ByteB >>, << ByteA, ByteB >> } \cup { PromptPrefix \o t : t \in Tails }

FileInputs == [timestamp : Timestamps, url : FileUrls, prompt : Prompts]

InitFile ==
    /\ pc = "name"
    /\ MainIdle
    /\ reply = NoReply
    /\ saveIn = Idle
    /\ saveOut = NoSave
    /\ fnIn \in { << a, b >> : a \in FileInputs, b \in FileInputs }
    /\ fnOut = << >>
    /\ reqs = << >>
    /\ browsers = << >>
    /\ request = NoRequest
    /\ table = {}
    /\ dismissals = << >>
    /\ StoreIdle

\* Two calls of saveScreenshot, as far as the filename goes.
ComputeFilenames ==
    /\ pc = "name"
    /\ fnOut' = << Filename(fnIn[1].timestamp, fnIn[1].url, fnIn[1].prompt),
                   Filename(fnIn[2].timestamp, fnIn[2].url, fnIn[2].prompt) >>
    /\ pc' = "named"
    /\ UNCHANGED << planVars, stepIdx, popupIdx, pageUrl, lastUrl, browserVars,
                    error, result, historyVars, sent, saveVars, fnIn, reqs, browsers,
                    request, table, dismissals,
                    now, bucket, saves, options, navigationScreenshots,
                    reply, answer, axTree, stepOps, responses >>

NextFile == ComputeFilenames

SpecFile == InitFile /\ [][NextFile]_vars

\* How many of the three inputs differ between the two calls.
InputsChanged ==
    { f \in {"timestamp", "url", "prompt"} : fnIn[1][f] # fnIn[2][f] }

\* C19 (as claimed): equal inputs give equal filenames, and two calls that
\* differ in exactly one of timestamp, URL and description get different
\* filenames.
C19_AnyInputChangesName ==
    pc = "named" =>
        /\ InputsChanged = {} => fnOut[1] = fnOut[2]
        /\ Cardinality(InputsChanged) = 1 => fnOut[1] # fnOut[2]

\* Two host names with the same slug: the same length, and at every place
\* the same letter or digit, or two characters that are neither.
SameSlug(h1, h2) ==
    /\ Len(h1) = Len(h2)
    /\ \A i \in 1..Len(h1) : IF IsAlnum(h1[i]) THEN h1[i] = h2[i] ELSE ~IsAlnum(h2[i])

\* What the filename keeps of the URL: nothing of an absent or unparseable
\* one, the slug of the host name otherwise.
SameDomain(u1, u2) ==
    IF u1.kind = "url" /\ u2.kind = "url" THEN SameSlug(u1.host, u2.host)
    ELSE u1.kind # "url" /\ u2.kind # "url"

SamePrefix(p1, p2) == Substring(p1, HashBytes) = Substring(p2, HashBytes)

\* C19 (amended): the filename is a function of the timestamp, of the
\* URL's host name with every character that is no letter or digit read as
\* "-" (nothing for an absent or unparseable URL), and of the first 15
\* bytes of the description: two calls get the same filename exactly when
\* they agree on these.
C19_NameByTimestampHostPrefix ==
    pc = "named" =>
        (fnOut[1] = fnOut[2] <=>
            /\ fnIn[1].timestamp = fnIn[2].timestamp
            /\ SameDomain(fnIn[1].url, fnIn[2].url)
            /\ SamePrefix(fnIn[1].prompt, fnIn[2].prompt))

C19_Witness ==
    /\ pc = "named"
    /\ fnOut[1] = fnOut[2]
    /\ fnIn[1].url # fnIn[2].url
    /\ fnIn[1].url.kind = "url"
    /\ fnIn[1].url.host # fnIn[2].url.host
    /\ fnIn[1].prompt # fnIn[2].prompt
    /\ Len(fnIn[1].prompt) > HashBytes

(***************************************************************************)
(* Several requests at once.  Express runs every handleMcpRequest          *)
(* invocation on one event loop; the invocations interleave at their       *)
(* awaits.  Each invocation has its own locals: browser in getPageContent  *)
(* (line 126) and browser in handleMcpRequest (line 575).                  *)
(***************************************************************************)
NumRequests == 2
Requests == 1..NumRequests

\* The browsers chromium.launch hands out, in the order of the launches.
BrowserIds == << "browser1", "browser2", "browser3", "browser4" >>
NoBrowser == "null"

IdleRequest == [pc |-> "launch", browser |-> NoBrowser, hBrowser |-> NoBrowser,
                failed |-> FALSE]

Launched(r) == [owner |-> r, users |-> {}, closers |-> {}, closeCalls |-> 0, open |-> TRUE]

InitConc ==
    /\ pc = "requests"
    /\ MainIdle
    /\ reply = NoReply
    /\ saveIn = Idle
    /\ saveOut = NoSave
    /\ fnIn = << >>
    /\ fnOut = << >>
    /\ reqs = [r \in Requests |-> IdleRequest]
    /\ browsers = << >>
    /\ request = NoRequest
    /\ table = {}
    /\ dismissals = << >>
    /\ StoreIdle

concUnchanged == << pc, planVars, stepIdx, popupIdx, pageUrl, lastUrl, browserVars,
                    error, result, historyVars, sent, saveVars, fnIn, fnOut,
                    request, table, dismissals,
                    now, bucket, saves, options, navigationScreenshots,
                    reply, answer, axTree, stepOps, responses >>

\* The browser an invocation's code refers to: its own local variable.
BrowserOfM(r) ==
    IF reqs[1].browser # NoBrowser THEN reqs[1].browser ELSE reqs[r].browser

BrowserOf(r) == reqs[r].browser

Index(b) == CHOOSE i \in DOMAIN BrowserIds : BrowserIds[i] = b

\* browser.close(), called by invocation r; the close may be rejected.
CloseBy(bs, b, r, ok) ==
    [bs EXCEPT ![Index(b)] = [@ EXCEPT !.closers = @ \cup {r},
                                       !.closeCalls = @ + 1,
                                       !.open = IF ok THEN FALSE ELSE @]]

\* Line 130: chromium.launch.
ConcLaunch(r) ==
    /\ reqs[r].pc = "launch"
    /\ \/ /\ browsers' = Append(browsers, Launched(r))
          /\ reqs' = [reqs EXCEPT ![r].browser = BrowserIds[Len(browsers) + 1],
                                  ![r].pc = "page"]
       \/ /\ reqs' = [reqs EXCEPT ![r].pc = "gpcCatch"]
          /\ UNCHANGED browsers
    /\ UNCHANGED concUnchanged

\* Lines 131-461: everything getPageContent does with its browser: it
\* returns, or an error takes it to its catch.
ConcPage(r) ==
    /\ reqs[r].pc = "page"
    /\ browsers' = [browsers EXCEPT ![Index(BrowserOf(r))].users = @ \cup {r}]
    /\ \/ reqs' = [reqs EXCEPT ![r].pc = "interpret", ![r].hBrowser = BrowserOf(r)]
       \/ reqs' = [reqs EXCEPT ![r].pc = "gpcCatch"]
    /\ UNCHANGED concUnchanged

\* Lines 463-472.
ConcGpcCatch(r) ==
    /\ reqs[r].pc = "gpcCatch"
    /\ IF CatchShouldClose(BrowserOf(r))
       THEN \E ok \in BOOLEAN : browsers' = CloseBy(browsers, BrowserOf(r), r, ok)
       ELSE UNCHANGED browsers
    /\ reqs' = [reqs EXCEPT ![r].pc = "hFinally", ![r].failed = TRUE]
    /\ UNCHANGED concUnchanged

\* Lines 607-655: the interpretation call does not touch the browser.
ConcInterpret(r) ==
    /\ reqs[r].pc = "interpret"
    /\ \E ok \in BOOLEAN : reqs' = [reqs EXCEPT ![r].pc = "hFinally", ![r].failed = ~ok]
    /\ UNCHANGED << browsers, concUnchanged >>

\* Lines 662-672.
ConcFinally(r) ==
    /\ reqs[r].pc = "hFinally"
    /\ IF FinallyShouldClose(reqs[r].hBrowser)
       THEN \E ok \in BOOLEAN : browsers' = CloseBy(browsers, reqs[r].hBrowser, r, ok)
       ELSE UNCHANGED browsers
    /\ reqs' = [reqs EXCEPT ![r].pc = "done"]
    /\ UNCHANGED concUnchanged

NextConc ==
    \E r \in Requests :
        \/ ConcLaunch(r)
        \/ ConcPage(r)
        \/ ConcGpcCatch(r)
        \/ ConcInterpret(r)
        \/ ConcFinally(r)

SpecConc == InitConc /\ [][NextConc]_vars

AllTerminated == \A r \in Requests : reqs[r].pc = "done"

C24_PopupsBestEffort ==
    /\ pc = "popup" =>
          /\ Len(dismissals) = popupIdx - 1
          /\ \A i \in 1..Len(dismissals) : dismissals[i].name = PopupNames[i]
    /\ pc = "initialCapture" =>
          /\ Len(dismissals) = NumPopups
          /\ \A i \in 1..NumPopups : dismissals[i].name = PopupNames[i]
    /\ error.src # "popup"
    /\ result.src # "popup"

C24_Witness ==
    /\ pc = "initialCapture"
    /\ dismissals[1].outcome = "absent"
    /\ dismissals[2].outcome = "clickFailed"
    /\ dismissals[3].outcome = "absent"

InitialEntries == { i \in DOMAIN captures : captures[i].tag = "initial_load" }

BeforeInitialCapture ==
    {"validate", "requestPlan", "analyze", "launch", "newContext", "goto", "popup",
     "initialCapture"}

TakenCaptures == { i \in DOMAIN captures : captures[i].ok }
LastTaken == CHOOSE i \in TakenCaptures : \A j \in TakenCaptures : j <= i
FinalEntries == { i \in DOMAIN captures : captures[i].tag = "final_state" }

\* C26 (as claimed): after the plan, the final_state capture is taken if
\* and only if the page's URL differs from the URL the page was on at the
\* last capture taken.
C26_FinalCaptureIffMoved ==
    /\ pc = "finalCapture" => pageUrl # captures[LastTaken].page
    /\ (pc = "axTree" /\ FinalEntries = {}) => pageUrl = captures[LastTaken].page

(***************************************************************************)
(* The interpretation call's outcome, and request validation               *)
(***************************************************************************)
\* C27: once handleMcpRequest has terminated after the interpretation
\* call returned, its outcome is: the "empty response" error without a
\* response object; the blocked error with a block reason; else the
\* sentinel string for an empty text; else the text as it came.
C27_InterpretationOutcome ==
    (pc \in {"done", "responded"} /\ answer.kind \in {"noResponse", "response"}) =>
        IF answer.kind = "noResponse"
        THEN /\ result.type = "error"
             /\ result.msg = McpMessage(<< "Gemini API returned an empty response." >>)
        ELSE IF answer.blockReason
        THEN /\ result.type = "error"
             /\ result.msg = McpMessage(BlockedMessage)
        ELSE IF answer.text = ""
        THEN /\ result.type = "text"
             /\ result.msg = << "(Gemini returned an empty response)" >>
        ELSE /\ result.type = "text"
             /\ result.msg = << answer.text >>

C27_Witness ==
    /\ pc = "done"
    /\ answer.kind = "response"
    /\ answer.blockReason
    /\ answer.text # ""
    /\ result.type = "error"

\* The requests the claim names.
BadRequest ==
    \/ request.url.type # "string"
    \/ ~ParsesAsUrl(request.url.text)
    \/ request.prompt.type # "string"

\* C28: a request whose url is missing, no string or not parseable, or
\* whose prompt is missing or no string, is answered 400 and never gets
\* to handleMcpRequest: no plan is requested, no browser is launched.
C28_BadRequestRejected ==
    BadRequest =>
        /\ pc \in {"validate", "responded"}
        /\ reply = NoReply
        /\ launches = 0
        /\ pc = "responded" =>
              /\ Len(responses) = 1
              /\ responses[1].status = StatusClientError
              /\ responses[1].body = "error"

C28_Witness ==
    /\ pc = "responded"
    /\ request.url = String("not a url")
    /\ request.prompt = String("prompt")
    /\ responses[1].status = StatusClientError
    /\ launches = 0

(***************************************************************************)
(* Navigation steps, one at a time                                         *)
(***************************************************************************)
Range(seq) == { seq[i] : i \in DOMAIN seq }

StepCaptures(i) ==
    { j \in DOMAIN captures : captures[j].tag = "navigation_step" /\ captures[j].step = i }

\* C21 (as claimed): a scroll step is never reported as failed: whenever
\* the end of its iteration is reached without a capture having been
\* attempted for it, its catch block has not run.
C21_ScrollNeverFails ==
    (pc = "stepEnd" /\ plan[stepIdx].type = "scroll" /\ StepCaptures(stepIdx) = {}) =>
        stepIdx \notin stepFailed

\* The state of a run whose initial capture has just been taken: the page
\* is on u, the plan is p.
ValidRequest == [route |-> "POST /process", url |-> String(RequestedUrl),
                 prompt |-> String("prompt")]

MidRunWith(p, u, opts) ==
    /\ request = ValidRequest
    /\ reply = TextReply(<< Body(JsonObject(TRUE, p, opts # NoOptions)) >>)
    /\ plan = p
    /\ legacy = (opts # NoOptions)
    /\ stepIdx = 1
    /\ popupIdx = NumPopups
    /\ pageUrl = u
    /\ lastUrl = InitialLastUrl(RequestedUrl, u)
    /\ urlBefore = Blank
    /\ trackedBefore = ""
    /\ browser = "open"
    /\ hBrowser = "null"
    /\ launches = 1
    /\ closeCalls = 0
    /\ error = NoError
    /\ result = NoResult
    /\ captures = << [CaptureEntry("initial_load", 0, RequestedUrl, "ok") EXCEPT !.page = u] >>
    /\ stepFailed = {}
    /\ sent = FALSE
    /\ answer = NoAnswer
    /\ axTree = "unset"
    /\ stepOps = << >>
    /\ responses = << >>
    /\ saveIn = Idle
    /\ saveOut = NoSave
    /\ fnIn = << >>
    /\ fnOut = << >>
    /\ reqs = << >>
    /\ browsers = << >>
    /\ table = {}
    /\ dismissals = << >>
    /\ now = 0
    /\ bucket = {}
    /\ saves = << >>
    /\ options = opts
    /\ navigationScreenshots = << >>

MidRun(p, u) == MidRunWith(p, u, NoOptions)

\* One step of any shape, from the top of the loop to its exit.
InitStep ==
    /\ pc = "stepLoop"
    /\ executed = << >>
    /\ inProgress = {}
    /\ \E s \in AllStepShapes, u \in Urls : MidRun(<< s >>, u)

NextStep ==
    \/ StepBegin
    \/ StepAction
    \/ UrlCheck
    \/ StepCapture
    \/ StepEnd
    \/ LoopExit

SpecStep == InitStep /\ [][NextStep]_vars

ClickOps == {"getByText.click", "waitForSelector", "click"}

\* C29: a click step with text clicks by text and awaits nothing that
\* takes the selector, whether or not a selector is given too; a click
\* step that gets to the end of the switch has awaited network idle last,
\* after its click; with neither text nor selector nothing is clicked.
C29_ClickByTextFirst ==
    (pc \in {"urlCheck", "stepCapture", "stepEnd"} /\ plan[stepIdx].type = "click") =>
        /\ plan[stepIdx].text =>
              /\ Range(stepOps) \cap {"waitForSelector", "click"} = {}
              /\ stepOps # << >> => stepOps[1] = "getByText.click"
        /\ (pc = "urlCheck" /\ plan[stepIdx].text) =>
              stepOps = << "getByText.click", "waitForLoadState" >>
        /\ (pc = "urlCheck" /\ ~plan[stepIdx].text /\ plan[stepIdx].selector) =>
              stepOps = << "waitForSelector", "click", "waitForLoadState" >>
        /\ (~plan[stepIdx].text /\ ~plan[stepIdx].selector) =>
              Range(stepOps) \cap ClickOps = {}

C29_Witness ==
    /\ pc = "urlCheck"
    /\ plan[stepIdx].type = "click"
    /\ plan[stepIdx].text
    /\ plan[stepIdx].selector
    /\ stepOps = << "getByText.click", "waitForLoadState" >>

(***************************************************************************)
(* The search step, candidate by candidate (lines 246-315)                 *)
(***************************************************************************)
SearchButtonSelectors ==
    << "button[aria-label*='search']", "button[aria-label*='Search']",
       "svg[alt='search']", "svg[alt='Search']",
       "button svg[alt='search']", "button svg[alt='Search']" >>

SearchInputSelectors ==
    << "input[type='search']", "input[name='search']", "input#search",
       "input[aria-label*='Search']", "input[aria-label*='search']" >>

\* One pass of a candidate's try block: waitForSelector rejects; or the
\* control shows up and an operation on it rejects (the click or the wait
\* after it; fill or Enter); or, for an input, the value is filled in and
\* Enter pressed but the wait for network idle rejects; or all of them go
\* through.
AttemptOutcomes(list) ==
    IF list = "button" THEN {"notFound", "actionFailed", "ok"}
    ELSE {"notFound", "actionFailed", "idleTimeout", "ok"}

Attempts(list) == SelectSeq(stepOps, LAMBDA a : a.list = list)

SearchStep == [type |-> "search", text |-> FALSE, selector |-> TRUE,
               duration |-> FALSE, value |-> TRUE]

InitSearch ==
    /\ pc = "searchButton"
    /\ executed = << 1 >>
    /\ inProgress = {1}
    /\ \E u \in Urls : MidRun(<< SearchStep >>, u)

searchUnchanged == << planVars, stepIdx, popupIdx, lastUrl, browserVars, error, result,
                      historyVars, sent, saveVars, sideVars, reply, answer, axTree,
                      responses >>

\* What follows a candidate: the next candidate after a failure, the next
\* stage after a success or when the list is used up.
AfterAttempt(o, i, n, onward) ==
    IF o = "ok" THEN onward ELSE IF i < n THEN "again" ELSE "searchEnd"

\* Lines 260-279.
TryButton ==
    /\ pc = "searchButton"
    /\ LET i == Len(Attempts("button")) + 1
       IN \E o \in AttemptOutcomes("button") :
            /\ stepOps' = Append(stepOps, [list |-> "button",
                                           selector |-> SearchButtonSelectors[i],
                                           outcome |-> o])
            /\ LET to == AfterAttempt(o, i, Len(SearchButtonSelectors), "searchInput")
               IN pc' = IF to = "again" THEN "searchButton" ELSE to
            /\ IF o = "notFound" THEN UNCHANGED pageUrl ELSE \E u \in Urls : pageUrl' = u
    /\ UNCHANGED searchUnchanged

\* Lines 291-310.
TryInput ==
    /\ pc = "searchInput"
    /\ LET i == Len(Attempts("input")) + 1
       IN \E o \in AttemptOutcomes("input") :
            /\ stepOps' = Append(stepOps, [list |-> "input",
                                           selector |-> SearchInputSelectors[i],
                                           outcome |-> o])
            /\ LET to == AfterAttempt(o, i, Len(SearchInputSelectors), "searchEnd")
               IN pc' = IF to = "again" THEN "searchInput" ELSE to
            /\ IF o = "notFound" THEN UNCHANGED pageUrl ELSE \E u \in Urls : pageUrl' = u
    /\ UNCHANGED searchUnchanged

\* Lines 276-279, 308-310, 315-317: a list that was used up is a warning;
\* the switch is left and the step is logged as successfully executed.
SearchEnd ==
    /\ pc = "searchEnd"
    /\ pc' = "urlCheck"
    /\ UNCHANGED << pageUrl, stepOps, searchUnchanged >>

NextSearch ==
    \/ TryButton
    \/ TryInput
    \/ SearchEnd

SpecSearch == InitSearch /\ [][NextSearch]_vars

Found(list) == \E i \in DOMAIN stepOps : stepOps[i].list = list /\ stepOps[i].outcome = "ok"

\* C22 (as claimed): a search whose trigger was not found is reported as
\* failed, not as successfully executed, and no input is tried; so is a
\* search whose input was not found after the trigger was clicked.
C22_SearchFailureReported ==
    /\ ~Found("button") => Attempts("input") = << >>
    /\ (pc = "urlCheck" /\ ~(Found("button") /\ Found("input"))) => stepIdx \in stepFailed

Resolved(a) == a.outcome # "notFound"

\* C23 (as claimed): the candidates of a list are tried in the order of the
\* list, a candidate only after none of the earlier ones resolved, and
\* none after the first that resolved; a list that is used up ends the
\* search without an error of the step.
C23_CandidatesInOrder ==
    /\ \A list \in {"button", "input"} :
          LET tried == Attempts(list)
              sels == IF list = "button" THEN SearchButtonSelectors ELSE SearchInputSelectors
          IN /\ Len(tried) <= Len(sels)
             /\ \A i \in DOMAIN tried : tried[i].selector = sels[i]
             /\ \A i, j \in DOMAIN tried : i < j => ~Resolved(tried[i])
    /\ Attempts("input") # << >> => Found("button")
    /\ stepFailed = {}
    /\ error = NoError

(***************************************************************************)
(* GET /screenshots/:id (server.ts 79-108, supabase_handler.ts 103-115)    *)
(***************************************************************************)
MaxIdLen == 3

IdChars == {"1", "2", "x", "-", " "}

\* What the route parameter can hold: a path segment is not empty.
IdTexts == UNION { [1..n -> IdChars] : n \in 1..MaxIdLen }

DigitChars == << "0", "1", "2", "3", "4", "5", "6", "7", "8", "9" >>

IsDigit(c) == \E i \in DOMAIN DigitChars : DigitChars[i] = c

DigitValue(c) == (CHOOSE i \in DOMAIN DigitChars : DigitChars[i] = c) - 1

NaN == [nan |-> TRUE]

Num(n) == [nan |-> FALSE, value |-> n]

IsNaN(v) == v.nan

RECURSIVE SkipWhiteSpace(_)
SkipWhiteSpace(s) ==
    IF s # << >> /\ s[1] = " " THEN SkipWhiteSpace(Tail(s)) ELSE s

RECURSIVE DigitPrefix(_)
DigitPrefix(s) ==
    IF s # << >> /\ IsDigit(s[1]) THEN << s[1] >> \o DigitPrefix(Tail(s)) ELSE << >>

RECURSIVE Decimal(_, _)
Decimal(digits, acc) ==
    IF digits = << >> THEN acc
    ELSE Decimal(Tail(digits), 10 * acc + DigitValue(digits[1]))

\* parseInt(text, 10): leading white space is skipped, a sign is taken,
\* then the longest run of digits; what follows it is ignored; NaN when
\* there is no digit at that place.
ParseInt(text) ==
    LET s == SkipWhiteSpace(text)
        signed == s # << >> /\ s[1] \in {"-", "+"}
        digits == DigitPrefix(IF signed THEN Tail(s) ELSE s)
    IN IF digits = << >> THEN NaN
       ELSE IF signed /\ s[1] = "-" THEN Num(0 - Decimal(digits, 0))
       ELSE Num(Decimal(digits, 0))

RecordIds == {1, 2, 12}

GetRequests == [route : {"GET /screenshots/:id"}, id : IdTexts]

Null == [kind |-> "null"]

Record(id) == [kind |-> "record", id |-> id, screenshot_path |-> << "screenshot", id >>]

NoRowsMessage == "JSON object requested, multiple (or no) rows returned"

FetchMessage == "fetch failed"

\* .eq('id', id).single(): the row when there is exactly one, an error
\* otherwise; the request itself can fail.
Single(rows, net) ==
    IF net = "down" THEN [data |-> Null, error |-> FetchMessage]
    ELSE IF Cardinality(rows) = 1
         THEN [data |-> Record(CHOOSE r \in rows : TRUE), error |-> "none"]
         ELSE [data |-> Null, error |-> NoRowsMessage]

\* getScreenshotRecord: a thrown error or the data.
GetScreenshotRecord(id, net) ==
    LET res == Single({ r \in table : r = id }, net)
    IN IF res.error # "none"
       THEN [threw |-> TRUE, message |-> << "Failed to get screenshot record: ", res.error >>]
       ELSE [threw |-> FALSE, data |-> res.data]

GetScreenshotUrl(path) == << "publicUrl" >> \o path

StatusNotFound == 404

\* The answer of the route.
ScreenshotAnswer(req, net) ==
    LET id == ParseInt(req.id)
    IN IF IsNaN(id)
       THEN [status |-> StatusClientError, body |-> "error", text |-> << "Invalid ID format" >>]
       ELSE LET got == GetScreenshotRecord(id.value, net)
            IN IF got.threw
               THEN [status |-> StatusServerError, body |-> "error", text |-> got.message]
               ELSE IF got.data = Null
                    THEN [status |-> StatusNotFound, body |-> "error",
                          text |-> << "Screenshot with ID ", req.id, " not found" >>]
                    ELSE [status |-> StatusOk, body |-> "record", text |-> << >>,
                          id |-> got.data.id,
                          download_url |-> GetScreenshotUrl(got.data.screenshot_path)]

InitGet ==
    /\ pc = "get"
    /\ MainIdle
    /\ reply = NoReply
    /\ saveIn = Idle
    /\ saveOut = NoSave
    /\ fnIn = << >>
    /\ fnOut = << >>
    /\ reqs = << >>
    /\ browsers = << >>
    /\ request \in GetRequests
    /\ table \in SUBSET RecordIds
    /\ dismissals = << >>
    /\ StoreIdle

GetScreenshot ==
    /\ pc = "get"
    /\ \E net \in {"up", "down"} :
         responses' = Append(responses, ScreenshotAnswer(request, net))
    /\ pc' = "responded"
    /\ UNCHANGED << planVars, stepIdx, popupIdx, pageUrl, lastUrl, browserVars,
                    error, result, historyVars, sent, saveVars, sideVars,
                    reply, answer, axTree, stepOps >>

NextGet == GetScreenshot

SpecGet == InitGet /\ [][NextGet]_vars

Numeric(text) == \A i \in DOMAIN text : IsDigit(text[i])

FetchFailed(r) == r.status = StatusServerError /\ r.text[2] = FetchMessage

\* C30 (as claimed): the route answers 400 to an id that is not numeric,
\* 404 to a numeric id without a record, 200 with the record and its
\* download URL to the id of a record (the lookup having gone through),
\* and never 5xx to the id of a missing record.
C30_ScreenshotById ==
    \A i \in DOMAIN responses :
        LET r == responses[i]
            id == Decimal(request.id, 0)
        IN /\ ~Numeric(request.id) => r.status = StatusClientError
           /\ (Numeric(request.id) /\ id \notin table /\ ~FetchFailed(r)) =>
                  r.status = StatusNotFound
           /\ (Numeric(request.id) /\ id \in table /\ ~FetchFailed(r)) =>
                  /\ r.status = StatusOk
                  /\ r.id = id
                  /\ r.download_url = GetScreenshotUrl(Record(id).screenshot_path)

(***************************************************************************)
(* The tracked URL and the number of captures                              *)
(***************************************************************************)
SavedStepCaptures ==
    { j \in DOMAIN captures : captures[j].tag = "navigation_step" /\ captures[j].ok }

InitialSaved == \E j \in DOMAIN captures : captures[j].tag = "initial_load" /\ captures[j].ok

\* The requested URL, or the URL of the latest mid-plan capture that was
\* saved.
TrackedUrl ==
    IF SavedStepCaptures = {} THEN RequestedUrl
    ELSE captures[CHOOSE j \in SavedStepCaptures : \A k \in SavedStepCaptures : k <= j].url

FailedStepCaptures(i) == { j \in StepCaptures(i) : ~captures[j].ok }

\* C34: once the initial capture is saved, lastUrl is the requested URL or
\* the URL of the latest saved mid-plan capture; a mid-plan capture that
\* fails leaves lastUrl as it was when the step began; a step that
\* completes on a URL other than lastUrl gets a capture attempt, so a
\* change that a failed capture left untracked is found again.
C34_TrackedUrl ==
    /\ InitialSaved => lastUrl = TrackedUrl
    /\ (pc = "stepEnd" /\ FailedStepCaptures(stepIdx) # {}) => lastUrl = trackedBefore
    /\ pc = "stepCapture" => pageUrl # lastUrl
    /\ (pc = "stepEnd" /\ stepIdx \notin stepFailed /\ StepCaptures(stepIdx) = {}) =>
            pageUrl = lastUrl

C34_Witness ==
    /\ pc = "stepCapture"
    /\ stepIdx = 2
    /\ FailedStepCaptures(1) # {}
    /\ \E j \in FailedStepCaptures(1) : captures[j].url = pageUrl
    /\ lastUrl = RequestedUrl

CapturesTagged(tag) == { j \in DOMAIN captures : captures[j].tag = tag }

\* C35: a run attempts, and so saves, at most one initial capture, one
\* mid-plan capture per plan step and one final capture, Len(plan) + 2 in
\* all; the legacy options take none: when they are over, every capture
\* is the initial one or a step's.
C35_CaptureCount ==
    /\ Len(captures) <= Len(plan) + 2
    /\ Cardinality(CapturesTagged("initial_load")) <= 1
    /\ Cardinality(CapturesTagged("final_state")) <= 1
    /\ \A i \in 1..Len(plan) : Cardinality(StepCaptures(i)) <= 1
    /\ \A j \in DOMAIN captures :
          /\ captures[j].tag \in CaptureTags
          /\ captures[j].tag = "navigation_step" => captures[j].step \in 1..Len(plan)
    /\ pc \in {"legacy", "finalCheck"} =>
          /\ CapturesTagged("final_state") = {}
          /\ Len(captures) = 1 + Cardinality(CapturesTagged("navigation_step"))

C35_Witness ==
    /\ pc = "axTree"
    /\ legacy
    /\ Len(plan) = 1
    /\ Len(captures) = Len(plan) + 2
    /\ \A j \in DOMAIN captures : captures[j].ok

NoFields(type) == [type |-> type, text |-> FALSE, selector |-> FALSE,
                   duration |-> FALSE, value |-> FALSE]

\* A null element; an element without a type or of a type the switch does
\* not know; a click without text and selector; a wait without duration;
\* a search that lacks its selector, its value or both.
MalformedShapes ==
    {NullStep, NoFields("undefined"), NoFields("hover"), NoFields("click"),
     NoFields("wait"), NoFields("search"),
     [NoFields("search") EXCEPT !.selector = TRUE],
     [NoFields("search") EXCEPT !.value = TRUE]}

LaterStep == [NoFields("click") EXCEPT !.text = TRUE]

InitMalformed ==
    /\ pc = "stepLoop"
    /\ executed = << >>
    /\ inProgress = {}
    /\ \E m \in MalformedShapes, u \in Urls : MidRun(<< m, LaterStep >>, u)

NextMalformed ==
    \/ StepBegin
    \/ StepAction
    \/ UrlCheck
    \/ StepCapture
    \/ StepEnd
    \/ LoopExit

SpecMalformed == InitMalformed /\ [][NextMalformed]_vars

\* C38 (as claimed): a malformed element is caught as a failed step or runs
\* as a no-op; no error leaves the loop, and the loop is left only when the
\* steps after the malformed one have been started too.
C38_MalformedNeverAborts ==
    /\ error = NoError
    /\ pc \notin StepPcs => executed = << 1, 2 >>
    /\ (pc = "stepEnd" /\ stepIdx = 1) => (stepIdx \in stepFailed \/ stepOps \in {<< >>, << "waitForLoadState" >>})

Submitted(a) == a.list = "input" /\ a.outcome \in {"idleTimeout", "ok"}

\* C33 (as claimed): in one search step the value is filled in and Enter
\* pressed at most once.
C33_SubmittedAtMostOnce ==
    Cardinality({ i \in DOMAIN stepOps : Submitted(stepOps[i]) }) <= 1

(***************************************************************************)
(* The legacy options, item by item (lines 345-441)                        *)
(***************************************************************************)
MaxLegacyItems == 4

LegacyGroups ==
    << "clickSelectors", "formInputs", "scrollToBottom", "waitForSelectors", "followLinks" >>

TotalItems(opts) ==
    opts.clickSelectors + opts.formInputs + opts.scrollToBottom
    + opts.waitForSelectors + opts.followLinks

\* The number of items of each group; 0 for a group that is absent or
\* empty, for scrollToBottom when it is not true.  MaxLegacyItems bounds
\* the items of all groups together.
LegacyOptionSets ==
    { opts \in [clickSelectors : 0..MaxLegacyItems, formInputs : 0..MaxLegacyItems,
                scrollToBottom : 0..1, waitForSelectors : 0..MaxLegacyItems,
                followLinks : 0..MaxLegacyItems] : TotalItems(opts) <= MaxLegacyItems }

RECURSIVE GroupItems(_, _)
GroupItems(group, n) ==
    IF n = 0 THEN << >> ELSE Append(GroupItems(group, n - 1), [group |-> group, item |-> n])

\* The items in the order the five blocks take them.
LegacyItems(opts) ==
    GroupItems("clickSelectors", opts.clickSelectors)
    \o GroupItems("formInputs", opts.formInputs)
    \o GroupItems("scrollToBottom", opts.scrollToBottom)
    \o GroupItems("waitForSelectors", opts.waitForSelectors)
    \o GroupItems("followLinks", opts.followLinks)

\* Clicked elements and followed links can move the page.
LegacyMayNavigate(group) == group \in {"clickSelectors", "followLinks"}

\* Every item's operations are in a try of their own whose catch warns.
AfterLegacyErrorM == "finalCheck"
AfterLegacyError == "next"

InitLegacy ==
    /\ pc = "stepLoop"
    /\ executed = << >>
    /\ inProgress = {}
    /\ \E p \in {<< >>, << LaterStep >>}, u \in Urls, opts \in LegacyOptionSets :
          MidRunWith(p, u, opts)

LegacyItem ==
    /\ pc = "legacy"
    /\ Len(stepOps) < Len(LegacyItems(options))
    /\ LET it == LegacyItems(options)[Len(stepOps) + 1]
       IN /\ \E o \in {"ok", "failed"} :
               /\ stepOps' = Append(stepOps, [group |-> it.group, item |-> it.item,
                                              outcome |-> o])
               /\ pc' = IF o = "failed" /\ AfterLegacyError # "next"
                        THEN AfterLegacyError ELSE "legacy"
          /\ \/ UNCHANGED pageUrl
             \/ /\ LegacyMayNavigate(it.group)
                /\ \E u \in Urls \ {pageUrl} : pageUrl' = u
    /\ UNCHANGED << planVars, stepIdx, popupIdx, lastUrl, browserVars, error,
                    result, historyVars, sent, saveVars, sideVars,
                    reply, answer, axTree, responses >>

LegacyEnd ==
    /\ pc = "legacy"
    /\ Len(stepOps) = Len(LegacyItems(options))
    /\ pc' = "finalCheck"
    /\ UNCHANGED << planVars, stepIdx, popupIdx, pageUrl, lastUrl, browserVars, error,
                    result, historyVars, sent, saveVars, sideVars,
                    reply, answer, axTree, stepOps, responses >>

NextLegacy ==
    \/ StepBegin
    \/ StepAction
    \/ UrlCheck
    \/ StepCapture
    \/ StepEnd
    \/ LoopExit
    \/ LegacyItem
    \/ LegacyEnd
    \/ FinalCheck

SpecLegacy == InitLegacy /\ [][NextLegacy]_vars

GroupRank(group) == CHOOSE k \in DOMAIN LegacyGroups : LegacyGroups[k] = group

AfterLegacyPcs == {"finalCheck", "finalCapture", "axTree"}

NumSaves == 2

MaxClock == 1

\* screenshot_${Date.now()}.png (supabase_handler.ts line 191).
RecordBlobName(t) == [kind |-> "record", t |-> t, prefix |-> ""]

\* The first characters of the description each call site passes as prompt
\* (lines 186, 326, 448), which is all the filename keeps of it (line 52).
DescriptionPrefix(tag) ==
    CASE tag = "initial_load" -> "Initial page lo"
      [] tag = "navigation_step" -> "Navigation - ht"
      [] tag = "final_state" -> "Final page - ht"

\* screenshot_${timestamp}${domain}_${promptHash}.png (line 66), for
\* captures of one site.
DirectBlobName(t, tag) == [kind |-> "direct", t |-> t, prefix |-> DescriptionPrefix(tag)]

\* upload(fileName, fileBuffer, { upsert: true }): the blob of that name is
\* created or replaced.
Upsert(blobs, name, content) ==
    { b \in blobs : b.name # name } \cup { [name |-> name, content |-> content] }

NoBlobName == [kind |-> "none", t |-> 0, prefix |-> ""]

IdleSave(tag) == [pc |-> "start", tag |-> tag, filename |-> NoBlobName, fileName |-> NoBlobName,
                  uploaded |-> << >>, ref |-> "none"]

InitStore ==
    /\ pc = "store"
    /\ MainIdle
    /\ reply = NoReply
    /\ saveIn = Idle
    /\ saveOut = NoSave
    /\ fnIn = << >>
    /\ fnOut = << >>
    /\ reqs = << >>
    /\ browsers = << >>
    /\ request = NoRequest
    /\ table = {}
    /\ dismissals = << >>
    /\ now = 0
    /\ bucket = {}
    /\ saves = [i \in 1..NumSaves |-> IdleSave("navigation_step")]
    /\ options = NoOptions
    /\ navigationScreenshots = << >>

storeUnchanged == << pc, planVars, stepIdx, popupIdx, pageUrl, lastUrl, browserVars,
                     error, result, historyVars, sent, saveVars, reply, answer, axTree,
                     stepOps, responses, fnIn, fnOut, reqs, browsers, request,
                     dismissals, options, navigationScreenshots >>

\* Time passes.
Tick ==
    /\ now < MaxClock
    /\ now' = now + 1
    /\ UNCHANGED << storeUnchanged, bucket, table, saves >>

\* Lines 51-66: the timestamp and the filename are taken on entry.
SaveStart(i) ==
    /\ saves[i].pc = "start"
    /\ saves' = [saves EXCEPT ![i].filename = DirectBlobName(now, saves[i].tag),
                              ![i].pc = "withRecord"]
    /\ UNCHANGED << storeUnchanged, now, bucket, table >>

\* saveScreenshotWithRecord, lines 191-192: the name from Date.now(), then
\* the upload.
SaveRecordUpload(i) ==
    /\ saves[i].pc = "withRecord"
    /\ \/ /\ bucket' = Upsert(bucket, RecordBlobName(now), i)
          /\ saves' = [saves EXCEPT ![i].fileName = RecordBlobName(now),
                                    ![i].uploaded = Append(@, RecordBlobName(now)),
                                    ![i].pc = "insert"]
       \/ /\ saves' = [saves EXCEPT ![i].fileName = RecordBlobName(now),
                                    ![i].pc = "direct"]
          /\ UNCHANGED bucket
    /\ UNCHANGED << storeUnchanged, now, table >>

\* Lines 195-201 and 78-84: the record; a failure is caught by
\* saveScreenshot, which goes on with the direct upload.
SaveRecordInsert(i) ==
    /\ saves[i].pc = "insert"
    /\ \/ /\ table' = table \cup { [capture |-> i, screenshot_path |-> saves[i].fileName] }
          /\ saves' = [saves EXCEPT ![i].ref = "primary", ![i].pc = "returned"]
       \/ /\ saves' = [saves EXCEPT ![i].pc = "direct"]
          /\ UNCHANGED table
    /\ UNCHANGED << storeUnchanged, now, bucket >>

\* Lines 88-91.
SaveDirectUpload(i) ==
    /\ saves[i].pc = "direct"
    /\ \/ /\ bucket' = Upsert(bucket, saves[i].filename, i)
          /\ saves' = [saves EXCEPT ![i].uploaded = Append(@, saves[i].filename),
                                    ![i].ref = "secondary", ![i].pc = "returned"]
       \/ /\ saves' = [saves EXCEPT ![i].pc = "local"]
          /\ UNCHANGED bucket
    /\ UNCHANGED << storeUnchanged, now, table >>

\* Lines 92-104.
SaveLocal(i) ==
    /\ saves[i].pc = "local"
    /\ \/ saves' = [saves EXCEPT ![i].ref = "local", ![i].pc = "returned"]
       \/ saves' = [saves EXCEPT ![i].pc = "threw"]
    /\ UNCHANGED << storeUnchanged, now, bucket, table >>

NextStore ==
    \/ Tick
    \/ \E i \in 1..NumSaves : SaveStart(i)
    \/ \E i \in 1..NumSaves : SaveRecordUpload(i)
    \/ \E i \in 1..NumSaves : SaveRecordInsert(i)
    \/ \E i \in 1..NumSaves : SaveDirectUpload(i)
    \/ \E i \in 1..NumSaves : SaveLocal(i)

SpecStore == InitStore /\ [][NextStore]_vars

BlobNames == { b.name : b \in bucket }

\* C31 (as claimed): a call of saveScreenshot uploads at most one blob, a
\* tier that failed having left none; a record references one blob, which
\* the capture of the record uploaded.
C31_OneBlobPerCapture ==
    /\ \A i \in DOMAIN saves : Len(saves[i].uploaded) <= 1
    /\ \A rec \in table :
          /\ rec.screenshot_path \in BlobNames
          /\ rec.screenshot_path \in Range(saves[rec.capture].uploaded)

\* C32 (as claimed): two captures never upload under the same record blob
\* name; a record's blob holds the image of the record's capture, and two
\* records never reference the same blob.
C32_DistinctBlobNames ==
    /\ \A i, j \in DOMAIN saves :
          (i # j /\ saves[i].fileName # NoBlobName /\ saves[j].fileName # NoBlobName) =>
              saves[i].fileName # saves[j].fileName
    /\ \A rec \in table :
          \A b \in bucket : b.name = rec.screenshot_path => b.content = rec.capture
    /\ \A r1, r2 \in table : r1 # r2 => r1.screenshot_path # r2.screenshot_path

(***************************************************************************)
(* Termination.  Every await of the run resolves or rejects (each has a    *)
(* timeout of its own or Playwright's default), so a run that can take a   *)
(* step eventually takes one.                                              *)
(***************************************************************************)
SpecLive == Init /\ [][Next]_vars /\ WF_vars(Next)

Terminated == pc \in {"done", "responded"} /\ result.type \in {"text", "error"}

====
